---- MODULE Spec2Model ----
(***************************************************************************)
(* A model of the PerconaFT cachetable (ft/cachetable.cc): pairs, the pair *)
(* list, client pin/unpin operations, the evictor, the cleaner and the     *)
(* checkpointer.                                                           *)
(*                                                                         *)
(* Granularity.  A section of code that runs under a pair's mutex, or      *)
(* under the list write lock, is one atomic action.  The list read lock,   *)
(* the value and disk nb_mutexes, the flow-control condition and the       *)
(* pending_lock_expensive read side are held across actions and are        *)
(* therefore part of the state.  Callbacks of the upper layer are inputs:  *)
(* fetch returns the last value flushed for the key, flush(write=true)     *)
(* stores it, a client modification replaces the value.                    *)
(*                                                                         *)
(* Inputs left out: num_dependent_pairs is 0 in every pin, attributes do   *)
(* not change on unpin or partial fetch, there is one cachefile.           *)
(***************************************************************************)
EXTENDS Integers, FiniteSets, Sequences, TLC

\* ---------------------------------------------------------------- bounds
\* pair objects ever allocated (a pair id is never reused)
MaxPairs == 3
\* put, get_and_pin, get_and_pin_nonblocking and prefetch calls in one behaviour
MaxOps == 2
\* begin_checkpoint calls in one behaviour
MaxCheckpoints == 1
\* cleaner runs in one behaviour
MaxCleanerRuns == 1
\* toku_create_cachetable's size_limit
SizeLimit == 1

\* ------------------------------------------------------- program constants
CLOCK_SATURATION == 15
CLOCK_INITIAL_COUNT == 3
CLEANER_N_TO_CHECK == 8
TOKUDB_TRY_AGAIN == -100012

\* ---------------------------------------------------------------- inputs
Clients == {"c1", "c2"}
Keys == {1, 2}
\* values a client can put
Values == {1}
\* the value a client leaves in a pair it modifies
NextValue(v) == (v % 2) + 1
\* zero_value
NoVal == -1
\* keys whose write_callback has a clone_callback
CloneKeys == {1}
\* attr.size and attr.cache_pressure_size of every put or fetched value
PairAttr == [size |-> 2, cache_pressure_size |-> 1]
PairSize == PairAttr.size
PairPressure == PairAttr.cache_pressure_size
PairIds == 1 .. MaxPairs
NoPair == 0

\* the block numbers of the file
FileKeys == 1 .. MaxPairs

VARIABLES
    pairs,        \* PairIds -> the PAIR struct (and the worker job it is handed to)
    clock,        \* the circular clock list, as the sequence of pairs in clock order
    clock_head,   \* pair_list::m_clock_head
    cleaner_head, \* pair_list::m_cleaner_head
    pending_list, \* the pairs linked from pair_list::m_pending_head
    list_readers, \* threads holding pair_list::m_list_lock in read mode
    next_pair,    \* the next pair id to allocate
    ev,           \* the evictor: counters and the eviction thread's position
    sleepers,     \* clients waiting on m_flow_control_cond
    cl,           \* the cleaner thread
    cp,           \* the checkpointer thread
    th,           \* Clients -> the client's position, locals and last result
    disk,         \* Keys -> the value last written by flush_callback(write=true)
    bjm,          \* jobs counted by cf->bjm and cp.m_checkpoint_clones_bjm
    cachetable_miss,
    nops,         \* pin-type calls started so far
    cf_list,      \* cachefile_list: the open cachefiles and m_next_filenum_to_use
    pl,           \* pair_list: m_table, m_table_size and m_n_in_table
    lk,           \* the locks of the pair list and of one pair, and who holds them
    hist          \* history of the current checkpoint (what was saved, what was lost)

vars == <<pairs, clock, clock_head, cleaner_head, pending_list, list_readers,
          next_pair, ev, sleepers, cl, cp, th, disk, bjm, cachetable_miss, nops, cf_list, pl, lk, hist>>

\* ------------------------------------------------------------ the PAIR
\* The struct left by pair_init before the caller's arguments are stored;
\* also what a freed or not yet allocated pair looks like.
BlankPair ==
    [st |-> "unused", key |-> 0, val |-> NoVal, dirty |-> FALSE, cnt |-> 0,
     pend |-> FALSE, asize |-> 0, cps |-> 0, est |-> 0, clone |-> NoVal,
     csize |-> 0, vw |-> 0, vq |-> 0, dw |-> 0, job |-> "none", cjob |-> FALSE,
     byput |-> FALSE, nfetch |-> 0, by |-> "none", fullhash |-> 0]

pair_init(key, value, asize, cps, dirty, byput) ==
    [BlankPair EXCEPT !.st = "live", !.key = key, !.val = value, !.dirty = dirty,
                      !.asize = asize, !.cps = cps, !.cnt = 0, !.byput = byput]

has_clone_callback(r) == r.key \in CloneKeys

\* ---------------------------------------------------------- nb_mutex
nb_mutex_users(w, q) == w + q
nb_mutex_writers(w) == w
nb_mutex_blocked_writers(q) == q

\* ------------------------------------------------------------ pair_list
InTable(ps) == {p \in PairIds : ps[p].st = "live"}

\* a lookup that walks the wrong hash chain
find_pair_wrong_chain(ps, key) == NoPair

find_pair(ps, key) ==
    IF \E p \in InTable(ps) : ps[p].key = key
    THEN CHOOSE p \in InTable(ps) : ps[p].key = key
    ELSE NoPair

\* a miss path that does not look again under the write list lock
find_pair_not_repeated(ps, key) == NoPair

\* the second find_pair of a miss path, made under the write list lock
find_pair_write_locked(ps, key) == find_pair(ps, key)

RECURSIVE SeqWithout(_, _)
SeqWithout(s, x) ==
    IF s = <<>> THEN <<>>
    ELSE IF Head(s) = x THEN SeqWithout(Tail(s), x)
    ELSE <<Head(s)>> \o SeqWithout(Tail(s), x)

IndexOf(s, x) == CHOOSE i \in 1 .. Len(s) : s[i] = x

clock_next(s, x) == s[(IndexOf(s, x) % Len(s)) + 1]

\* insert p right before the head (at the tail of the clock order); the
\* sequence is kept in list order starting anywhere, so the new pair goes
\* just before the head's position
add_to_clock(s, head, p) ==
    IF head = NoPair THEN <<p>>
    ELSE LET i == IndexOf(s, head)
         IN  SubSeq(s, 1, i - 1) \o <<p>> \o SubSeq(s, i, Len(s))

\* The hash table of the pair list: m_table maps a bucket to its chain, the
\* pairs from the head of the chain on.  It is kept by the specification of
\* the pair list; the other specifications look a key up among the pairs in
\* the table (find_pair) and leave it as pair_list::init made it.
INITIAL_PAIR_LIST_SIZE == 4

pair_list_init ==
    [table_size |-> INITIAL_PAIR_LIST_SIZE, n_in_table |-> 0,
     table |-> [h \in 0 .. INITIAL_PAIR_LIST_SIZE - 1 |-> <<>>]]

\* the bucket of the initial table, whatever the size of the table
bucket_of_initial_table(fullhash, table_size) == fullhash % INITIAL_PAIR_LIST_SIZE

\* fullhash & (table_size - 1), table_size being a power of two
bucket_of(fullhash, table_size) == fullhash % table_size

\* the pairs of all chains, bucket by bucket, each chain from its head on
RECURSIVE chained_pairs(_, _, _)
chained_pairs(table, i, table_size) ==
    IF i = table_size THEN <<>>
    ELSE table[i] \o chained_pairs(table, i + 1, table_size)

\* the second loop of pair_list::rehash: the pairs are taken in that order
\* and each becomes the head of its new chain
RECURSIVE rehash_pairs(_, _, _, _)
rehash_pairs(newtable, todo, newtable_size, ps) ==
    IF todo = <<>> THEN newtable
    ELSE LET p == Head(todo)
             h == bucket_of(ps[p].fullhash, newtable_size)
         IN  rehash_pairs([newtable EXCEPT ![h] = <<p>> \o @], Tail(todo), newtable_size, ps)

rehash(l, newtable_size, ps) ==
    [l EXCEPT !.table_size = newtable_size,
              !.table = rehash_pairs([h \in 0 .. newtable_size - 1 |-> <<>>],
                                     chained_pairs(l.table, 0, l.table_size),
                                     newtable_size, ps)]

\* pair_list::put after add_to_clock
hash_put(l, p, ps) ==
    LET h  == bucket_of(ps[p].fullhash, l.table_size)
        l1 == [l EXCEPT !.table[h] = <<p>> \o @, !.n_in_table = @ + 1]
    IN  IF l1.n_in_table > l1.table_size THEN rehash(l1, l1.table_size * 2, ps) ELSE l1

\* an evict that never shrinks the table
hash_evict_no_rehash(l, p, ps) ==
    LET h == bucket_of(ps[p].fullhash, l.table_size)
    IN  [l EXCEPT !.table[h] = SeqWithout(@, p), !.n_in_table = @ - 1]

\* pair_list::evict after pending_pairs_remove
hash_evict(l, p, ps) ==
    LET h  == bucket_of(ps[p].fullhash, l.table_size)
        l1 == [l EXCEPT !.table[h] = SeqWithout(@, p), !.n_in_table = @ - 1]
    IN  IF 4 * l1.n_in_table < l1.table_size /\ l1.table_size > 4
        THEN rehash(l1, l1.table_size \div 2, ps) ELSE l1

\* a pair_remove that unlinks the pair and leaves the cursors where they are
pair_remove_head_not_moved(s, head, p) == IF Len(s) = 1 THEN NoPair ELSE head

\* pair_list::pair_remove: the new value of a cursor after p is unlinked
pair_remove_head(s, head, p) ==
    IF Len(s) = 1 THEN NoPair
    ELSE IF head = p THEN clock_next(s, p) ELSE head

\* -------------------------------------------------------------- evictor
\* evictor::init
\* reserve 25% as unreservable
unreservable_memory(size) == size \div 4

evictor_init(size_limit) ==
    [low_size_watermark |-> size_limit,
     low_size_hysteresis |-> (11 * size_limit) \div 10,
     high_size_hysteresis |-> (5 * size_limit) \div 4,
     high_size_watermark |-> (3 * size_limit) \div 2,
     size_reserved |-> unreservable_memory(size_limit),
     size_current |-> 0, size_evicting |-> 0, num_sleepers |-> 0,
     pc |-> "idle", p |-> NoPair, set_val |-> FALSE, curr_key |-> 0]

should_client_thread_sleep(e) == e.size_current > e.high_size_watermark

\* clients that are woken at every look of the eviction thread
should_sleeping_clients_wakeup_always(e) == TRUE

should_sleeping_clients_wakeup(e) == e.size_current <= e.high_size_hysteresis

\* an eviction thread that never finds anything to do
eviction_never_needed(e) == FALSE

eviction_needed(e) == (e.size_current - e.size_evicting) > e.low_size_watermark

add_to_size_current(e, n) == [e EXCEPT !.size_current = @ + n]
remove_from_size_current(e, n) == [e EXCEPT !.size_current = @ - n]

\* an eviction thread that never gives its estimate back
decrease_size_evicting_never(e, estimate) == e

\* decrease_size_evicting: signalling the eviction thread changes nothing
\* here, the thread's timed wait lets it run at any time
decrease_size_evicting(e, estimate) ==
    IF estimate > 0 THEN [e EXCEPT !.size_evicting = @ - estimate] ELSE e

\* ---------------------------------------------------------------- cachefiles
\* FILENUM.fileid is an unsigned counter that wraps; its width is scaled down
\* to FILENUM_BITS bits, and FILENUM_NONE is its largest value
FILENUM_BITS == 3
FilenumModulus == 2 ^ FILENUM_BITS
FILENUM_NONE == FilenumModulus - 1
\* the denominator of the fractions a loader asks for
FractionDen == 2

\* the OS file-ids of the files a client can open
MaxFiles == 2
FileIds == 1 .. MaxFiles
\* the filenums callers hold reserved and have not passed to an open yet
MaxReserved == 2

\* cachefile_list::init; ret and cf are the results of the last
\* reserve_filenum and open and fd the file-id of the fd of the last open
\* (sequences of at most one element), held the reserved filenums in the
\* hands of callers.  for_checkpoint holds the filenums of the cachefiles
\* whose for_checkpoint is set, num_files is m_checkpoint_num_files, ck tells
\* whether a checkpoint is between its begin and its end, r is the result of
\* the last end_checkpoint, cfs the checkpoint_cfs it filled, and unpinned
\* the files whose note_unpin_by_checkpoint it invoked
cachefile_list_init ==
    [head |-> <<>>, next |-> 0, ret |-> <<>>, held |-> <<>>, fd |-> <<>>, cf |-> <<>>,
     aborted |-> FALSE,
     for_checkpoint |-> {}, num_files |-> 0, ck |-> "idle", r |-> <<>>, cfs |-> <<>>,
     unpinned |-> {}]

\* ------------------------------------------------------------------ locks
\* The threads that take locks: two clients, the eviction thread, a worker
\* of the eviction kibbutz, the cleaner, the checkpointer and a worker of
\* the checkpointing kibbutz
LockThreads == {"c1", "c2", "ev", "job", "cl", "cp", "cw"}
NoThread == "none"
\* the read/write locks: cachefile_list::m_lock and the three of pair_list
RWLocks == {"cf_list", "pending_exp", "list", "pending_cheap"}

\* No lock is held and no pair exists.  pc is each thread's place in the
\* function op it runs (0: in none), rd and wr the holders of the read/write
\* locks, mutex the holder of the pair's mutex, value and disk the holders
\* of its nb_mutexes, waiting the threads inside a condition wait, queued
\* the enqueued kibbutz jobs, found whether find_pair finds the pair,
\* alloc whether it is allocated, pending its checkpoint_pending bit,
\* linked whether it is on the pending list, ckpt whether a checkpoint has
\* begun, loc each thread's local copy of the pending bit, uaf whether a
\* freed pair was used or a pair in use was freed
lock_init ==
    [pc |-> [t \in LockThreads |-> 0], op |-> [t \in LockThreads |-> "none"],
     rd |-> [l \in RWLocks |-> {}], wr |-> [l \in RWLocks |-> NoThread],
     mutex |-> NoThread, value |-> NoThread, disk |-> NoThread,
     waiting |-> {}, queued |-> {},
     found |-> FALSE, alloc |-> FALSE, pending |-> FALSE, linked |-> FALSE,
     ckpt |-> FALSE, loc |-> [t \in LockThreads |-> FALSE], uaf |-> FALSE,
     cast |-> LockThreads]

\* ---------------------------------------------------------------- clients
IdleThread ==
    [pc |-> "idle", op |-> "none", k |-> 0, v |-> NoVal, mm |-> FALSE, p |-> NoPair,
     pend |-> FALSE, pin |-> NoPair, pinmm |-> FALSE,
     ret |-> 0, val |-> NoVal, unl |-> 0, nf |-> 0, dmiss |-> 0, missed |-> FALSE,
     rmk |-> 0, rmp |-> NoPair]

\* a client between two calls
AtRest(c) == th[c].pc \in {"idle", "done"}

\* a client may start a pin-type call: the calls of a behaviour are bounded,
\* and of two clients that have not called yet the first one calls first
CanStart(c) ==
    /\ th[c].pc \in {"idle", "done"}
    /\ ~bjm.closed
    /\ nops < MaxOps
    /\ (c = "c1" \/ th["c1"].op # "none")

\* the locals of a call that starts now; the pin the client holds is kept,
\* and so is the key and pair of an unpin_and_remove that came just before
StartCall(c, op, k, v, mm) ==
    [IdleThread EXCEPT !.op = op, !.k = k, !.v = v, !.mm = mm,
                       !.pin = th[c].pin, !.pinmm = th[c].pinmm,
                       !.rmk = IF th[c].op = "unpin_and_remove" THEN th[c].k ELSE 0,
                       !.rmp = IF th[c].op = "unpin_and_remove" THEN th[c].p ELSE NoPair]

\* History of the checkpoint in progress, kept to state what it owes:
\* marked:    pairs begin_checkpoint marked pending
\* image:     the value each marked pair had then (for a pair being fetched,
\*            the value in the file)
\* dirty0:    marked pairs that were DIRTY then
\* held:      dirty0 pairs a client had locked then
\* unwritten: dirty0 pairs not yet passed to flush_callback(write=true)
\* discarded: unwritten pairs that unpin_and_remove took out of the table
\* changed:   marked pairs a client has modified since
\* lost:      changed pairs whose image was neither in the file nor in a
\*            clone when the client first modified them
\* kept:      changed pairs, DIRTY then, whose image was in the file or in a
\*            clone when the client first modified them
HistInit == [active |-> FALSE, marked |-> {}, image |-> [p \in PairIds |-> NoVal],
             dirty0 |-> {}, held |-> {}, unwritten |-> {}, discarded |-> {}, changed |-> {},
             lost |-> {}, kept |-> {}]

\* toku_cachetable_create(size_limit): an empty table, every thread idle
CreatedPairs(size_limit) ==
    /\ pairs = [p \in PairIds |-> BlankPair]
    /\ clock = <<>>
    /\ clock_head = NoPair
    /\ cleaner_head = NoPair
    /\ pending_list = {}
    /\ list_readers = {}
    /\ next_pair = 1
    /\ ev = evictor_init(size_limit)
    /\ sleepers = {}
    /\ cl = [pc |-> "idle", p |-> NoPair, pend |-> FALSE, runs |-> 0,
             iterations |-> 1, i |-> 0]     \* cl.init(1, ...): one iteration a run
    /\ cp = [pc |-> "idle", p |-> NoPair, n |-> 0]
    /\ th = [c \in Clients |-> IdleThread]
    /\ disk = [k \in FileKeys |-> 0]      \* what the file holds before any flush
    /\ bjm = [cf |-> 0, clones |-> 0, closed |-> FALSE, list |-> {}]
    /\ cf_list = cachefile_list_init
    /\ pl = pair_list_init
    /\ cachetable_miss = 0
    /\ hist = HistInit

CreatedTable(size_limit) == CreatedPairs(size_limit) /\ lk = lock_init

\* ... with no client call made yet
Created(size_limit) == CreatedTable(size_limit) /\ nops = 0

\* ------------------------------------------------------------------------
\* Helpers shared by the operations
\* ------------------------------------------------------------------------
P(p) == pairs[p]

SetPair(p, r) == [pairs EXCEPT ![p] = r]

\* a touch that counts on past the saturation value
pair_touch_unbounded(count) == count + 1

\* pair_touch
pair_touch(count) == IF count < CLOCK_SATURATION THEN count + 1 ELSE CLOCK_SATURATION

\* an insertion that leaves the count as pair_init set it
cachetable_insert_at_not_clocked(key, value, asize, cps, dirty, byput) ==
    pair_init(key, value, asize, cps, dirty, byput)

\* cachetable_insert_at: the new pair as pair_init and pair_list::put leave it
cachetable_insert_at(key, value, asize, cps, dirty, byput) ==
    [pair_init(key, value, asize, cps, dirty, byput) EXCEPT !.cnt = CLOCK_INITIAL_COUNT]

\* pair_list::put: add_to_clock and the hash-chain insert
ListPut(q) ==
    /\ q <= MaxPairs
    /\ clock' = add_to_clock(clock, clock_head, q)
    /\ clock_head' = IF clock_head = NoPair THEN q ELSE clock_head
    /\ cleaner_head' = IF clock_head = NoPair THEN q ELSE cleaner_head
    /\ next_pair' = q + 1

\* pair_list::evict: pair_remove, pending_pairs_remove, remove_from_hash_chain
ListEvict(p) ==
    /\ clock' = SeqWithout(clock, p)
    /\ clock_head' = pair_remove_head(clock, clock_head, p)
    /\ cleaner_head' = pair_remove_head(clock, cleaner_head, p)
    /\ pending_list' = pending_list \ {p}

ListSame == UNCHANGED <<clock, clock_head, cleaner_head, next_pair>>

\* cachetable_free_pair: flush_callback(write=false, keep=false), ctpair_destroy
cachetable_free_pair(r) == [BlankPair EXCEPT !.st = "freed", !.key = r.key]

\* a pair that pair_list::evict leaves on its hash chain
StillHashed(r) == r

\* the pair after pair_list::evict took it out of the table
Unlinked(r) == [r EXCEPT !.st = "removed"]

\* a thread that releases the value lock of r
nb_mutex_unlock_value(r) == [r EXCEPT !.vw = 0]

\* cachetable_only_write_locked_data(is_clone=false) within
\* cachetable_write_locked_pair: flush_callback(write=true) and p->dirty = CLEAN
cachetable_write_locked_pair(r) == [r EXCEPT !.dirty = FALSE]

\* clone_pair, with the disk_nb_mutex taken before it and the clone writer
\* enqueued after it (write_locked_pair_for_checkpoint)
clone_pair(r) ==
    [r EXCEPT !.clone = r.val, !.csize = r.asize, !.dirty = FALSE, !.dw = 1]

\* write_locked_pair_for_checkpoint: what it does to the pair
\* a pending bit that is cleared without looking at the dirty bit
needs_checkpoint_write_never(r, pending) == FALSE

needs_checkpoint_write(r, pending) == r.dirty /\ pending

write_locked_pair_for_checkpoint(r, pending) ==
    IF needs_checkpoint_write(r, pending)
    THEN IF has_clone_callback(r)
         THEN [clone_pair(r) EXCEPT !.cjob = TRUE]
         ELSE cachetable_write_locked_pair(r)
    ELSE r

\* ... to the file
DiskAfterCheckpointWrite(r, pending) ==
    IF needs_checkpoint_write(r, pending) /\ ~has_clone_callback(r)
    THEN [disk EXCEPT ![r.key] = r.val] ELSE disk

\* a clone whose size is not counted
EvClonesUncounted(e, r, pending) == e

\* ... to the evictor's size and the clone job count
EvAfterCheckpointWrite(e, r, pending) ==
    IF needs_checkpoint_write(r, pending) /\ has_clone_callback(r)
    THEN add_to_size_current(e, r.asize) ELSE e

BjmAfterCheckpointWrite(r, pending) ==
    IF needs_checkpoint_write(r, pending) /\ has_clone_callback(r)
    THEN [bjm EXCEPT !.clones = @ + 1] ELSE bjm

\* history: flush_callback(write=true) has completed for p (or for its clone)
Written(h, p) == [h EXCEPT !.unwritten = @ \ {p}]

HistAfterCheckpointWrite(p, r, pending) ==
    IF needs_checkpoint_write(r, pending) /\ ~has_clone_callback(r)
    THEN Written(hist, p) ELSE hist

\* the disk lock is free whenever the write for checkpoint has to take it
DiskLockFreeFor(r, pending) == needs_checkpoint_write(r, pending) => r.dw = 0

\* get_checkpoint_pending, and the same read-and-clear in try_pin_pair
get_checkpoint_pending(r) == [r EXCEPT !.pend = FALSE]

\* a test that takes no account of the clone callback
resolve_checkpointing_fast_no_clone(r, pending) == ~(pending /\ r.dirty)

\* resolve_checkpointing_fast
resolve_checkpointing_fast(r, pending) == ~(pending /\ r.dirty /\ ~has_clone_callback(r))

\* some client is inside unpin_and_remove of p
BeingRemoved(p) ==
    \E c \in Clients : th[c].op = "unpin_and_remove" /\ ~AtRest(c) /\ th[c].p = p

\* some client is blocked in get_and_pin on p's value lock
BlockedInGetAndPin(p) ==
    \E c \in Clients : th[c].pc = "gp_vwait" /\ th[c].p = p

\* a call returns: its result stays, its other locals are gone
Done(t, ret) == [t EXCEPT !.pc = "done", !.ret = ret, !.v = NoVal, !.pend = FALSE]

\* ------------------------------------------------------------------------
\* toku_cachetable_put
\* ------------------------------------------------------------------------
StartPut(c, k, v) ==
    /\ CanStart(c) /\ th[c].pin = NoPair
    /\ nops' = nops + 1
    /\ UNCHANGED <<cf_list, pl, lk>>
    /\ IF should_client_thread_sleep(ev)
       THEN /\ th' = [th EXCEPT ![c] = [StartCall(c, "put", k, v, TRUE) EXCEPT !.pc = "put_sleep"]]
            /\ ev' = [ev EXCEPT !.num_sleepers = @ + 1]
            /\ sleepers' = sleepers \cup {c}
       ELSE /\ th' = [th EXCEPT ![c] = [StartCall(c, "put", k, v, TRUE) EXCEPT !.pc = "put_wl"]]
            /\ UNCHANGED <<ev, sleepers>>
    /\ UNCHANGED <<pairs, clock, clock_head, cleaner_head, pending_list, list_readers,
                   next_pair, cl, cp, disk, bjm, cachetable_miss, hist>>

\* wait_for_cache_pressure_to_subside returns
PutWake(c) ==
    /\ th[c].pc = "put_sleep" /\ c \notin sleepers
    /\ ev' = [ev EXCEPT !.num_sleepers = @ - 1]
    /\ th' = [th EXCEPT ![c].pc = "put_wl"]
    /\ UNCHANGED <<pairs, clock, clock_head, cleaner_head, pending_list, list_readers,
                   next_pair, sleepers, cl, cp, disk, bjm, cachetable_miss, nops, cf_list, pl, lk, hist>>

\* a put that overwrites the value of the pair it finds
cachetable_put_internal_overwrite(c) ==
    LET k == th[c].k
        q == next_pair
        p == find_pair(pairs, k)
    IN  IF p # NoPair
        THEN /\ th' = [th EXCEPT ![c] = Done(@, -1)]
             /\ pairs' = SetPair(p, [P(p) EXCEPT !.val = th[c].v, !.dirty = TRUE])
             /\ UNCHANGED ev
             /\ ListSame
        ELSE /\ ListPut(q)
             /\ pairs' = SetPair(q, [cachetable_insert_at(k, th[c].v, PairSize, PairPressure,
                                                         TRUE, TRUE)
                                       EXCEPT !.vw = 1, !.by = c])
             /\ ev' = add_to_size_current(ev, PairSize)
             /\ th' = [th EXCEPT ![c] = [Done(@, 0) EXCEPT !.pin = q, !.pinmm = TRUE,
                                                          !.p = q, !.val = th[c].v]]

\* cachetable_put_internal under the list write lock
cachetable_put_internal(c) ==
    LET k == th[c].k
        q == next_pair
    IN  IF find_pair(pairs, k) # NoPair
        THEN /\ th' = [th EXCEPT ![c] = Done(@, -1)]
             /\ UNCHANGED <<pairs, ev>>
             /\ ListSame
        ELSE /\ ListPut(q)
             /\ pairs' = SetPair(q, [cachetable_insert_at(k, th[c].v, PairSize, PairPressure,
                                                         TRUE, TRUE)
                                       EXCEPT !.vw = 1, !.by = c])
             /\ ev' = add_to_size_current(ev, PairSize)
             /\ th' = [th EXCEPT ![c] = [Done(@, 0) EXCEPT !.pin = q, !.pinmm = TRUE,
                                                          !.p = q, !.val = th[c].v]]

PutInsert(c) ==
    /\ th[c].pc = "put_wl"
    /\ list_readers = {}
    /\ cachetable_put_internal(c)
    /\ UNCHANGED <<pending_list, list_readers, sleepers, cl, cp, disk, bjm,
                   cachetable_miss, nops, cf_list, pl, lk, hist>>

\* ------------------------------------------------------------------------
\* toku_cachetable_unpin
\* ------------------------------------------------------------------------
\* cachetable_unpin_internal
cachetable_unpin_internal(r, dirty, value) ==
    [r EXCEPT !.dirty = (dirty \/ r.dirty), !.val = value, !.vw = 0]

\* history: a client changes the value of p
Modified(h, p) ==
    IF ~h.active \/ p \notin h.marked \/ p \in h.changed THEN h
    ELSE LET safe   == disk[P(p).key] = h.image[p] \/ P(p).clone = h.image[p]
         IN  [h EXCEPT !.changed = @ \cup {p},
                       !.lost = IF safe THEN @ ELSE @ \cup {p},
                       !.kept = IF safe /\ p \in h.dirty0 THEN @ \cup {p} ELSE @]

\* the caller's use of the pinned value before it unpins: a pin taken for
\* writing may change the value, and is then unpinned DIRTY
Unpin(c, dirty, modify) ==
    LET p     == th[c].pin
        value == IF modify THEN NextValue(P(p).val) ELSE P(p).val
    IN  /\ AtRest(c) /\ p # NoPair
        /\ modify => (dirty /\ th[c].pinmm)
        /\ pairs' = SetPair(p, cachetable_unpin_internal(P(p), dirty, value))
        /\ hist' = IF modify THEN Modified(hist, p) ELSE hist
        /\ th' = [th EXCEPT ![c] = [Done(StartCall(c, "unpin", P(p).key, NoVal, FALSE), 0)
                                      EXCEPT !.pin = NoPair, !.pinmm = FALSE, !.p = p]]
        /\ UNCHANGED <<clock, clock_head, cleaner_head, pending_list, list_readers, next_pair,
                       ev, sleepers, cl, cp, disk, bjm, cachetable_miss, nops, cf_list, pl, lk>>

\* ------------------------------------------------------------------------
\* toku_cachetable_get_and_pin_with_dep_pairs_batched (no dependent pairs)
\* ------------------------------------------------------------------------
\* pf_req_callback: only a clean pair can have pieces missing
PartialFetchChoices(r) == IF r.dirty THEN {FALSE} ELSE BOOLEAN

\* a fetch that never calls fetch_callback
cachetable_fetch_pair_no_read(r, keep_pair_locked) ==
    [r EXCEPT !.asize = PairSize, !.cps = PairPressure,
              !.vw = IF keep_pair_locked THEN 1 ELSE 0]

\* cachetable_fetch_pair: fetch_callback reads the file
cachetable_fetch_pair(r, keep_pair_locked) ==
    [r EXCEPT !.val = disk[r.key], !.asize = PairSize, !.cps = PairPressure,
              !.nfetch = r.nfetch + 1, !.vw = IF keep_pair_locked THEN 1 ELSE 0]

\* begin_batched_pin and the entry of get_and_pin
StartGetAndPin(c, k, mm) ==
    /\ CanStart(c) /\ th[c].pin = NoPair
    /\ nops' = nops + 1
    /\ UNCHANGED <<cf_list, pl, lk>>
    /\ list_readers' = list_readers \cup {c}
    /\ th' = [th EXCEPT ![c] = [StartCall(c, "get_and_pin", k, NoVal, mm) EXCEPT !.pc = "gp_begin"]]
    /\ UNCHANGED <<pairs, clock, clock_head, cleaner_head, pending_list, next_pair, ev,
                   sleepers, cl, cp, disk, bjm, cachetable_miss, hist>>

\* try_pin_pair up to the read of the pending bit: the value lock is free and
\* is taken at once
try_pin_pair_lock(r, mm) ==
    [r EXCEPT !.vw = 1, !.cnt = pair_touch(r.cnt), !.pend = IF mm THEN FALSE ELSE r.pend]

\* try_pin_pair has to wait for the value lock
try_pin_pair_block(r) == [r EXCEPT !.vq = r.vq + 1]

\* try_pin_pair gets the value lock it waited for
try_pin_pair_wake(r, mm) ==
    [r EXCEPT !.vw = 1, !.vq = r.vq - 1, !.cnt = pair_touch(r.cnt),
              !.pend = IF mm THEN FALSE ELSE r.pend]

\* label beginning with wait == false: find_pair under the read list lock
GPBegin(c) ==
    LET p == find_pair(pairs, th[c].k)
    IN  /\ th[c].pc = "gp_begin"
        /\ IF p # NoPair
           THEN /\ ~BeingRemoved(p)
                /\ IF nb_mutex_writers(P(p).vw) > 0
                   THEN /\ list_readers' = list_readers \ {c}
                        /\ pairs' = SetPair(p, try_pin_pair_block(P(p)))
                        /\ th' = [th EXCEPT ![c].pc = "gp_vwait", ![c].p = p]
                   ELSE /\ pairs' = SetPair(p, try_pin_pair_lock(P(p), th[c].mm))
                        /\ th' = [th EXCEPT ![c].pc = "gp_ckpt", ![c].p = p,
                                            ![c].pend = th[c].mm /\ P(p).pend]
                        /\ UNCHANGED list_readers
           ELSE /\ th' = [th EXCEPT ![c].pc = IF should_client_thread_sleep(ev)
                                              THEN "gp_again" ELSE "gp_wl"]
                /\ list_readers' = IF should_client_thread_sleep(ev)
                                   THEN list_readers ELSE list_readers \ {c}
                /\ UNCHANGED pairs
        /\ UNCHANGED <<clock, clock_head, cleaner_head, pending_list, next_pair, ev, sleepers,
                       cl, cp, disk, bjm, cachetable_miss, nops, cf_list, pl, lk, hist>>

\* label beginning with wait == true: drop the read list lock and sleep
GPAgain(c) ==
    /\ th[c].pc = "gp_again"
    /\ list_readers' = list_readers \ {c}
    /\ ev' = [ev EXCEPT !.num_sleepers = @ + 1]
    /\ sleepers' = sleepers \cup {c}
    /\ th' = [th EXCEPT ![c].pc = "gp_sleep"]
    /\ UNCHANGED <<pairs, clock, clock_head, cleaner_head, pending_list, next_pair,
                   cl, cp, disk, bjm, cachetable_miss, nops, cf_list, pl, lk, hist>>

GPWake(c) ==
    /\ th[c].pc = "gp_sleep" /\ c \notin sleepers
    /\ ev' = [ev EXCEPT !.num_sleepers = @ - 1]
    /\ list_readers' = list_readers \cup {c}
    /\ th' = [th EXCEPT ![c].pc = "gp_begin"]
    /\ UNCHANGED <<pairs, clock, clock_head, cleaner_head, pending_list, next_pair,
                   sleepers, cl, cp, disk, bjm, cachetable_miss, nops, cf_list, pl, lk, hist>>

\* nb_mutex_lock(&p->value_nb_mutex) returns in try_pin_pair
GPValueLocked(c) ==
    LET p == th[c].p
    IN  /\ th[c].pc = "gp_vwait"
        /\ nb_mutex_writers(P(p).vw) = 0
        /\ pairs' = SetPair(p, try_pin_pair_wake(P(p), th[c].mm))
        /\ list_readers' = list_readers \cup {c}
        /\ th' = [th EXCEPT ![c].pc = "gp_ckpt", ![c].pend = th[c].mm /\ P(p).pend]
        /\ UNCHANGED <<clock, clock_head, cleaner_head, pending_list, next_pair, ev, sleepers,
                       cl, cp, disk, bjm, cachetable_miss, nops, cf_list, pl, lk, hist>>

\* got_value
got_value(t, p, r, mm) ==
    [Done(t, 0) EXCEPT !.pin = p, !.pinmm = mm, !.val = r.val, !.p = p]

\* the rest of try_pin_pair: checkpoint_pair_and_dependent_pairs, then the
\* partial fetch decision
GPCheckpoint(c, pf_required) ==
    LET p  == th[c].p
        r  == P(p)
        r1 == write_locked_pair_for_checkpoint(r, th[c].pend)
        e1 == EvAfterCheckpointWrite(ev, r, th[c].pend)
    IN  /\ th[c].pc = "gp_ckpt"
        /\ DiskLockFreeFor(r, th[c].pend)
        /\ pf_required \in PartialFetchChoices(r1)
        /\ disk' = DiskAfterCheckpointWrite(r, th[c].pend)
        /\ bjm' = BjmAfterCheckpointWrite(r, th[c].pend)
        /\ hist' = HistAfterCheckpointWrite(p, r, th[c].pend)
        /\ ev' = e1
        /\ IF ~pf_required
           THEN /\ pairs' = SetPair(p, r1)
                /\ th' = [th EXCEPT ![c] = got_value(@, p, r1, th[c].mm)]
                /\ list_readers' = list_readers \ {c}
           ELSE IF should_client_thread_sleep(e1)
           THEN /\ pairs' = SetPair(p, nb_mutex_unlock_value(r1))
                /\ th' = [th EXCEPT ![c].pc = "gp_again", ![c].pend = FALSE]
                /\ UNCHANGED list_readers
           ELSE /\ pairs' = SetPair(p, r1)
                /\ th' = [th EXCEPT ![c].pc = "gp_pf", ![c].pend = FALSE]
                /\ list_readers' = list_readers \ {c}
        /\ UNCHANGED <<clock, clock_head, cleaner_head, pending_list, next_pair, sleepers,
                       cl, cp, cachetable_miss, nops, cf_list, pl, lk>>

\* do_partial_fetch(keep_pair_locked = true); the attr does not change
GPPartialFetch(c) ==
    LET p == th[c].p
    IN  /\ th[c].pc = "gp_pf"
        /\ P(p).dw = 0
        /\ th' = [th EXCEPT ![c] = got_value(@, p, P(p), th[c].mm)]
        /\ UNCHANGED <<pairs, clock, clock_head, cleaner_head, pending_list, list_readers,
                       next_pair, ev, sleepers, cl, cp, disk, bjm, cachetable_miss, nops, cf_list, pl, lk, hist>>

\* the miss path under the write list lock: find_pair again, then either
\* try_pin_pair(have_read_list_lock = false) or cachetable_insert_at
GPWriteLocked(c) ==
    LET p == find_pair_write_locked(pairs, th[c].k)
        q == next_pair
    IN  /\ th[c].pc = "gp_wl"
        /\ list_readers = {}
        /\ IF p # NoPair
           THEN /\ ~BeingRemoved(p)
                /\ IF nb_mutex_writers(P(p).vw) > 0
                   THEN /\ pairs' = SetPair(p, try_pin_pair_block(P(p)))
                        /\ th' = [th EXCEPT ![c].pc = "gp_vwait", ![c].p = p]
                        /\ UNCHANGED list_readers
                   ELSE /\ pairs' = SetPair(p, try_pin_pair_lock(P(p), th[c].mm))
                        /\ th' = [th EXCEPT ![c].pc = "gp_ckpt", ![c].p = p,
                                            ![c].pend = th[c].mm /\ P(p).pend]
                        /\ list_readers' = list_readers \cup {c}
                /\ ListSame
           ELSE /\ ListPut(q)
                /\ pairs' = SetPair(q, [cachetable_insert_at(th[c].k, NoVal, 0, 0, FALSE, FALSE)
                                          EXCEPT !.vw = 1, !.by = c])
                /\ th' = [th EXCEPT ![c].pc = "gp_fetch", ![c].p = q, ![c].missed = TRUE]
                /\ UNCHANGED list_readers
        /\ UNCHANGED <<pending_list, ev, sleepers, cl, cp, disk, bjm, cachetable_miss,
                       nops, cf_list, pl, lk, hist>>

\* cachetable_fetch_pair(keep_pair_locked = true), cachetable_miss++, got_value
GPFetch(c) ==
    LET p  == th[c].p
        r1 == cachetable_fetch_pair(P(p), TRUE)
    IN  /\ th[c].pc = "gp_fetch"
        /\ pairs' = SetPair(p, r1)
        /\ ev' = add_to_size_current(ev, r1.asize)
        /\ cachetable_miss' = cachetable_miss + 1
        /\ th' = [th EXCEPT ![c] = [got_value(@, p, r1, th[c].mm)
                                      EXCEPT !.nf = th[c].nf + 1, !.dmiss = th[c].dmiss + 1]]
        /\ UNCHANGED <<clock, clock_head, cleaner_head, pending_list, list_readers, next_pair,
                       sleepers, cl, cp, disk, bjm, nops, cf_list, pl, lk, hist>>

\* ------------------------------------------------------------------------
\* toku_cachetable_get_and_pin_nonblocking_batched
\* ------------------------------------------------------------------------
\* unlockers that are not run
run_unlockers_skipped(t) == t

\* run_unlockers: the caller's locks are released, once per run
run_unlockers(t) == [t EXCEPT !.unl = t.unl + 1]

StartGetAndPinNonblocking(c, k, mm) ==
    /\ CanStart(c) /\ th[c].pin = NoPair
    /\ nops' = nops + 1
    /\ UNCHANGED <<cf_list, pl, lk>>
    /\ list_readers' = list_readers \cup {c}
    /\ th' = [th EXCEPT ![c] = [StartCall(c, "get_and_pin_nonblocking", k, NoVal, mm)
                                  EXCEPT !.pc = "nb_begin"]]
    /\ UNCHANGED <<pairs, clock, clock_head, cleaner_head, pending_list, next_pair, ev,
                   sleepers, cl, cp, disk, bjm, cachetable_miss, hist>>

\* the value lock taken without waiting on the hit path, the pending bit
\* read and cleared by get_checkpoint_pending when may_modify_value
nonblocking_lock(r, mm) == [r EXCEPT !.vw = 1, !.pend = IF mm THEN FALSE ELSE r.pend]

\* pin_and_release_pair up to nb_mutex_lock: the caller joins the waiters
pin_and_release_block(r) == [r EXCEPT !.vq = r.vq + 1]

\* pin_and_release_pair: nb_mutex_lock returns, the pending bit is read
pin_and_release_wake(r, mm) ==
    [r EXCEPT !.vw = 1, !.vq = r.vq - 1, !.pend = IF mm THEN FALSE ELSE r.pend]

\* label try_again: find_pair under the read list lock
NBBegin(c) ==
    LET p    == find_pair(pairs, th[c].k)
        pend == th[c].mm /\ P(p).pend
    IN  /\ th[c].pc = "nb_begin"
        /\ IF p = NoPair
           THEN /\ list_readers' = list_readers \ {c}
                /\ th' = [th EXCEPT ![c].pc = "nb_wl"]
                /\ UNCHANGED pairs
           ELSE IF nb_mutex_writers(P(p).vw) > 0
           THEN /\ list_readers' = list_readers \ {c}
                /\ pairs' = SetPair(p, pin_and_release_block(P(p)))
                /\ th' = [th EXCEPT ![c] = [run_unlockers(@) EXCEPT !.pc = "nb_vwait", !.p = p]]
           ELSE /\ pairs' = SetPair(p, nonblocking_lock(P(p), th[c].mm))
                /\ th' = [th EXCEPT ![c] =
                            [(IF resolve_checkpointing_fast(P(p), pend)
                              THEN @ ELSE run_unlockers(@))
                               EXCEPT !.pc = "nb_ckpt", !.p = p, !.pend = pend]]
                /\ UNCHANGED list_readers
        /\ UNCHANGED <<clock, clock_head, cleaner_head, pending_list, next_pair, ev, sleepers,
                       cl, cp, disk, bjm, cachetable_miss, nops, cf_list, pl, lk, hist>>

\* the hit path after the lock: write_locked_pair_for_checkpoint, then
\* TRY_AGAIN if that was slow, else the partial fetch decision
NBCheckpoint(c, pf_required) ==
    LET p    == th[c].p
        r    == P(p)
        r1   == write_locked_pair_for_checkpoint(r, th[c].pend)
        fast == resolve_checkpointing_fast(r, th[c].pend)
    IN  /\ th[c].pc = "nb_ckpt"
        /\ DiskLockFreeFor(r, th[c].pend)
        /\ pf_required \in (IF fast THEN PartialFetchChoices(r1) ELSE {FALSE})
        /\ disk' = DiskAfterCheckpointWrite(r, th[c].pend)
        /\ bjm' = BjmAfterCheckpointWrite(r, th[c].pend)
        /\ hist' = HistAfterCheckpointWrite(p, r, th[c].pend)
        /\ ev' = EvAfterCheckpointWrite(ev, r, th[c].pend)
        /\ IF ~fast
           THEN /\ pairs' = SetPair(p, nb_mutex_unlock_value(r1))
                /\ th' = [th EXCEPT ![c] = Done(@, TOKUDB_TRY_AGAIN)]
                /\ list_readers' = list_readers \ {c}
           ELSE IF pf_required
           THEN /\ pairs' = SetPair(p, r1)
                /\ th' = [th EXCEPT ![c] = [run_unlockers(@) EXCEPT !.pc = "nb_pf"]]
                /\ list_readers' = list_readers \ {c}
           ELSE /\ pairs' = SetPair(p, r1)
                /\ th' = [th EXCEPT ![c] = got_value(@, p, r1, th[c].mm)]
                /\ list_readers' = list_readers \ {c}
        /\ UNCHANGED <<clock, clock_head, cleaner_head, pending_list, next_pair, sleepers,
                       cl, cp, cachetable_miss, nops, cf_list, pl, lk>>

\* the end of every path that added data: sleep if the cache is too full,
\* then return TOKUDB_TRY_AGAIN
NBFinish(c, t, e) ==
    IF should_client_thread_sleep(e)
    THEN /\ th' = [th EXCEPT ![c] = [t EXCEPT !.pc = "nb_sleep"]]
         /\ ev' = [e EXCEPT !.num_sleepers = @ + 1]
         /\ sleepers' = sleepers \cup {c}
    ELSE /\ th' = [th EXCEPT ![c] = Done(t, TOKUDB_TRY_AGAIN)]
         /\ ev' = e
         /\ UNCHANGED sleepers

\* do_partial_fetch(keep_pair_locked = false)
NBPartialFetch(c) ==
    LET p == th[c].p
    IN  /\ th[c].pc = "nb_pf"
        /\ P(p).dw = 0
        /\ pairs' = SetPair(p, nb_mutex_unlock_value(P(p)))
        /\ NBFinish(c, th[c], ev)
        /\ UNCHANGED <<clock, clock_head, cleaner_head, pending_list, list_readers, next_pair,
                       cl, cp, disk, bjm, cachetable_miss, nops, cf_list, pl, lk, hist>>

NBWake(c) ==
    /\ th[c].pc = "nb_sleep" /\ c \notin sleepers
    /\ ev' = [ev EXCEPT !.num_sleepers = @ - 1]
    /\ th' = [th EXCEPT ![c] = Done(@, TOKUDB_TRY_AGAIN)]
    /\ UNCHANGED <<pairs, clock, clock_head, cleaner_head, pending_list, list_readers,
                   next_pair, sleepers, cl, cp, disk, bjm, cachetable_miss, nops, cf_list, pl, lk, hist>>

\* the miss path under the write list lock
NBWriteLocked(c) ==
    LET p == find_pair_write_locked(pairs, th[c].k)
        q == next_pair
    IN  /\ th[c].pc = "nb_wl"
        /\ list_readers = {}
        /\ IF p # NoPair
           THEN /\ list_readers' = list_readers \cup {c}
                /\ th' = [th EXCEPT ![c].pc = "nb_begin"]
                /\ UNCHANGED pairs
                /\ ListSame
           ELSE /\ ListPut(q)
                /\ pairs' = SetPair(q, [cachetable_insert_at(th[c].k, NoVal, 0, 0, FALSE, FALSE)
                                          EXCEPT !.vw = 1, !.by = c])
                /\ th' = [th EXCEPT ![c] = [run_unlockers(@) EXCEPT !.pc = "nb_fetch", !.p = q,
                                                                   !.missed = TRUE]]
                /\ UNCHANGED list_readers
        /\ UNCHANGED <<pending_list, ev, sleepers, cl, cp, disk, bjm, cachetable_miss,
                       nops, cf_list, pl, lk, hist>>

\* a get_and_pin_nonblocking that hands the pair it inserted to a reader job
\* of the kibbutz and returns without calling fetch_callback
NBFetchOnReader(c) ==
    LET p == th[c].p
    IN  /\ th[c].pc = "nb_fetch"
        /\ pairs' = SetPair(p, [P(p) EXCEPT !.job = "reader"])
        /\ NBFinish(c, th[c], ev)
        /\ UNCHANGED <<clock, clock_head, cleaner_head, pending_list, list_readers, next_pair,
                       cl, cp, disk, bjm, cachetable_miss, nops, cf_list, pl, lk, hist>>

\* cachetable_fetch_pair(keep_pair_locked = false) on the calling thread
NBFetch(c) ==
    LET p  == th[c].p
        r1 == cachetable_fetch_pair(P(p), FALSE)
    IN  /\ th[c].pc = "nb_fetch"
        /\ pairs' = SetPair(p, r1)
        /\ cachetable_miss' = cachetable_miss + 1
        /\ NBFinish(c, [th[c] EXCEPT !.nf = @ + 1, !.dmiss = @ + 1],
                    add_to_size_current(ev, r1.asize))
        /\ UNCHANGED <<clock, clock_head, cleaner_head, pending_list, list_readers, next_pair,
                       cl, cp, disk, bjm, nops, cf_list, pl, lk, hist>>

\* pin_and_release_pair: nb_mutex_lock returns
NBValueLocked(c) ==
    LET p == th[c].p
    IN  /\ th[c].pc = "nb_vwait"
        /\ nb_mutex_writers(P(p).vw) = 0
        /\ pairs' = SetPair(p, pin_and_release_wake(P(p), th[c].mm))
        /\ th' = [th EXCEPT ![c].pc = "nb_rel", ![c].pend = th[c].mm /\ P(p).pend]
        /\ UNCHANGED <<clock, clock_head, cleaner_head, pending_list, list_readers, next_pair,
                       ev, sleepers, cl, cp, disk, bjm, cachetable_miss, nops, cf_list, pl, lk, hist>>

\* pin_and_release_pair: write_locked_pair_for_checkpoint, nb_mutex_unlock
NBRelease(c) ==
    LET p  == th[c].p
        r  == P(p)
        r1 == write_locked_pair_for_checkpoint(r, th[c].pend)
    IN  /\ th[c].pc = "nb_rel"
        /\ DiskLockFreeFor(r, th[c].pend)
        /\ disk' = DiskAfterCheckpointWrite(r, th[c].pend)
        /\ bjm' = BjmAfterCheckpointWrite(r, th[c].pend)
        /\ hist' = HistAfterCheckpointWrite(p, r, th[c].pend)
        /\ ev' = EvAfterCheckpointWrite(ev, r, th[c].pend)
        /\ pairs' = SetPair(p, nb_mutex_unlock_value(r1))
        /\ th' = [th EXCEPT ![c] = Done(@, TOKUDB_TRY_AGAIN)]
        /\ UNCHANGED <<clock, clock_head, cleaner_head, pending_list, list_readers, next_pair,
                       sleepers, cl, cp, cachetable_miss, nops, cf_list, pl, lk>>

\* ------------------------------------------------------------------------
\* toku_cachetable_maybe_get_and_pin, toku_cachetable_maybe_get_and_pin_clean
\* ------------------------------------------------------------------------
\* a maybe_get_and_pin that hands out a pair whatever its pending bit is
maybe_get_and_pin_while_pending(r, clean) ==
    (clean \/ r.dirty) /\ nb_mutex_users(r.vw, r.vq) = 0

\* the tests made under the pair's mutex: dirty (not asked for by the _clean
\* variant), no user of the value lock, and, with the lock taken, no pending
\* checkpoint
maybe_get_and_pin_succeeds(r, clean) ==
    /\ clean \/ r.dirty
    /\ nb_mutex_users(r.vw, r.vq) = 0
    /\ ~r.pend

\* entry of either call: read_list_lock
StartMaybeGetAndPin(c, k, clean) ==
    /\ CanStart(c) /\ th[c].pin = NoPair
    /\ nops' = nops + 1
    /\ UNCHANGED <<cf_list, pl, lk>>
    /\ list_readers' = list_readers \cup {c}
    /\ th' = [th EXCEPT ![c] = [StartCall(c, IF clean THEN "maybe_get_and_pin_clean"
                                                       ELSE "maybe_get_and_pin", k, NoVal, TRUE)
                                  EXCEPT !.pc = "mg_begin"]]
    /\ UNCHANGED <<pairs, clock, clock_head, cleaner_head, pending_list, next_pair, ev,
                   sleepers, cl, cp, disk, bjm, cachetable_miss, hist>>

\* the rest of the call: find_pair under the read list lock, then the tests
\* under the pair's mutex; on -1 the value lock taken for the look at the
\* pending bit has been released again
MaybeGetAndPin(c) ==
    LET p  == find_pair(pairs, th[c].k)
        ok == p # NoPair
              /\ maybe_get_and_pin_succeeds(P(p), th[c].op = "maybe_get_and_pin_clean")
    IN  /\ th[c].pc = "mg_begin"
        /\ list_readers' = list_readers \ {c}
        /\ IF ok
           THEN /\ pairs' = SetPair(p, [P(p) EXCEPT !.vw = 1])
                /\ th' = [th EXCEPT ![c] = got_value(th[c], p, P(p), TRUE)]
           ELSE /\ UNCHANGED pairs
                /\ th' = [th EXCEPT ![c] = [Done(th[c], -1) EXCEPT !.p = p]]
        /\ UNCHANGED <<clock, clock_head, cleaner_head, pending_list, next_pair,
                       ev, sleepers, cl, cp, disk, bjm, cachetable_miss, nops, cf_list, pl, lk, hist>>

toku_cachetable_maybe_get_and_pin(c) == \E k \in Keys : StartMaybeGetAndPin(c, k, FALSE)

toku_cachetable_maybe_get_and_pin_clean(c) == \E k \in Keys : StartMaybeGetAndPin(c, k, TRUE)

\* ------------------------------------------------------------------------
\* toku_cachetable_unpin_and_remove
\* ------------------------------------------------------------------------
\* evictor::remove_pair_attr
remove_pair_attr(e, r) == remove_from_size_current(e, r.asize)

\* entry: p->dirty = CACHETABLE_CLEAN.  No client is blocked in a plain
\* get_and_pin on the pair (callers guarantee it)
StartUnpinAndRemove(c) ==
    LET p == th[c].pin
    IN  /\ AtRest(c) /\ p # NoPair
        /\ ~BlockedInGetAndPin(p)
        /\ UNCHANGED <<nops, cf_list, pl, lk>>
        /\ pairs' = SetPair(p, [P(p) EXCEPT !.dirty = FALSE])
        /\ th' = [th EXCEPT ![c] = [StartCall(c, "unpin_and_remove", P(p).key, NoVal, FALSE)
                                      EXCEPT !.pc = "uar_d", !.p = p]]
        /\ UNCHANGED <<clock, clock_head, cleaner_head, pending_list, list_readers, next_pair,
                       ev, sleepers, cl, cp, disk, bjm, cachetable_miss, hist>>

\* nb_mutex_lock(&p->disk_nb_mutex) returns
UARDiskLocked(c) ==
    LET p == th[c].p
    IN  /\ th[c].pc = "uar_d"
        /\ P(p).dw = 0
        /\ pairs' = SetPair(p, [P(p) EXCEPT !.dw = 1])
        /\ th' = [th EXCEPT ![c].pc = "uar_wl"]
        /\ UNCHANGED <<clock, clock_head, cleaner_head, pending_list, list_readers, next_pair,
                       ev, sleepers, cl, cp, disk, bjm, cachetable_miss, nops, cf_list, pl, lk, hist>>

\* the pair as the write-locked section leaves it
unpin_and_remove_pair(r) ==
    Unlinked([r EXCEPT !.pend = FALSE, !.dirty = FALSE, !.cps = 0, !.vw = 0, !.dw = 0])

\* a removal that never waits for the threads blocked on the value lock
must_wait_for_users_never(r) == FALSE

\* nb_mutex_blocked_writers(&p->value_nb_mutex) > 0: wait before freeing
must_wait_for_users(r) == nb_mutex_blocked_writers(r.vq) > 0

\* history: the pair left the table through unpin_and_remove
Discarded(h, p) ==
    [h EXCEPT !.discarded = @ \cup (h.unwritten \cap {p}),
                        !.unwritten = @ \ {p}]

\* the section under the write list lock, up to the test of blocked writers
UARRemove(c) ==
    LET p  == th[c].p
        r1 == unpin_and_remove_pair(P(p))
    IN  /\ th[c].pc = "uar_wl"
        /\ list_readers = {}
        /\ ListEvict(p)
        /\ ev' = remove_pair_attr(ev, P(p))
        /\ hist' = Discarded(hist, p)
        /\ IF must_wait_for_users(r1)
           THEN /\ pairs' = SetPair(p, r1)
                /\ th' = [th EXCEPT ![c].pc = "uar_wait", ![c].pin = NoPair, ![c].pinmm = FALSE]
           ELSE /\ pairs' = SetPair(p, cachetable_free_pair(r1))
                /\ th' = [th EXCEPT ![c] = [Done(@, 0) EXCEPT !.pin = NoPair, !.pinmm = FALSE]]
        /\ UNCHANGED <<list_readers, next_pair, sleepers, cl, cp, disk, bjm,
                       cachetable_miss, nops, cf_list, pl, lk>>

\* nb_mutex_wait_for_users returns, cachetable_free_pair
UARFree(c) ==
    LET p == th[c].p
    IN  /\ th[c].pc = "uar_wait"
        /\ nb_mutex_users(P(p).vw, P(p).vq) = 0
        /\ pairs' = SetPair(p, cachetable_free_pair(P(p)))
        /\ th' = [th EXCEPT ![c] = Done(@, 0)]
        /\ UNCHANGED <<clock, clock_head, cleaner_head, pending_list, list_readers, next_pair,
                       ev, sleepers, cl, cp, disk, bjm, cachetable_miss, nops, cf_list, pl, lk, hist>>

\* ------------------------------------------------------------------------
\* toku_cachefile_prefetch, cachetable_reader, cachetable_partial_reader
\* ------------------------------------------------------------------------
\* label found_pair: lock an unused pair and hand it to a partial reader if
\* pieces are missing
prefetch_found_pair(r, pf_required) ==
    IF nb_mutex_users(r.vw, r.vq) = 0
    THEN IF pf_required
         THEN [r EXCEPT !.cnt = pair_touch(r.cnt), !.vw = 1, !.job = "preader"]
         ELSE [r EXCEPT !.cnt = pair_touch(r.cnt)]
    ELSE r

PrefetchAddsJob(r, pf_required) == nb_mutex_users(r.vw, r.vq) = 0 /\ pf_required

StartPrefetch(c, k, pf_required) ==
    LET p == find_pair(pairs, k)
    IN  /\ CanStart(c)
        /\ nops' = nops + 1
        /\ UNCHANGED <<cf_list, pl, lk>>
        /\ IF should_client_thread_sleep(ev)
           THEN /\ ~pf_required
                /\ th' = [th EXCEPT ![c] = Done(StartCall(c, "prefetch", k, NoVal, FALSE), 0)]
                /\ UNCHANGED <<pairs, bjm>>
           ELSE IF p = NoPair
           THEN /\ ~pf_required
                /\ th' = [th EXCEPT ![c] = [StartCall(c, "prefetch", k, NoVal, FALSE)
                                              EXCEPT !.pc = "pf_wl"]]
                /\ UNCHANGED <<pairs, bjm>>
           ELSE /\ pf_required \in PartialFetchChoices(P(p))
                /\ (~PrefetchAddsJob(P(p), TRUE)) => ~pf_required
                /\ pairs' = SetPair(p, prefetch_found_pair(P(p), pf_required))
                /\ bjm' = IF PrefetchAddsJob(P(p), pf_required)
                          THEN [bjm EXCEPT !.cf = @ + 1] ELSE bjm
                /\ th' = [th EXCEPT ![c] = Done(StartCall(c, "prefetch", k, NoVal, FALSE), 0)]
        /\ UNCHANGED <<clock, clock_head, cleaner_head, pending_list, list_readers, next_pair,
                       ev, sleepers, cl, cp, disk, cachetable_miss, hist>>

\* the miss path under the write list lock
PrefetchWriteLocked(c, pf_required) ==
    LET p == find_pair_write_locked(pairs, th[c].k)
        q == next_pair
    IN  /\ th[c].pc = "pf_wl"
        /\ list_readers = {}
        /\ IF p # NoPair
           THEN /\ pf_required \in PartialFetchChoices(P(p))
                /\ (~PrefetchAddsJob(P(p), TRUE)) => ~pf_required
                /\ pairs' = SetPair(p, prefetch_found_pair(P(p), pf_required))
                /\ bjm' = IF PrefetchAddsJob(P(p), pf_required)
                          THEN [bjm EXCEPT !.cf = @ + 1] ELSE bjm
                /\ ListSame
           ELSE /\ ~pf_required
                /\ ListPut(q)
                /\ pairs' = SetPair(q, [cachetable_insert_at(th[c].k, NoVal, 0, 0, FALSE, FALSE)
                                          EXCEPT !.vw = 1, !.job = "reader", !.by = c])
                /\ bjm' = [bjm EXCEPT !.cf = @ + 1]
        /\ th' = [th EXCEPT ![c] = Done(@, 0)]
        /\ UNCHANGED <<pending_list, list_readers, ev, sleepers, cl, cp, disk,
                       cachetable_miss, nops, cf_list, pl, lk, hist>>

\* cachetable_reader on a kibbutz worker
cachetable_reader(p) ==
    LET r1 == cachetable_fetch_pair(P(p), FALSE)
    IN  /\ P(p).job = "reader"
        /\ pairs' = SetPair(p, [r1 EXCEPT !.job = "none"])
        /\ ev' = add_to_size_current(ev, r1.asize)
        /\ bjm' = [bjm EXCEPT !.cf = @ - 1]
        /\ UNCHANGED <<clock, clock_head, cleaner_head, pending_list, list_readers, next_pair,
                       sleepers, cl, cp, th, disk, cachetable_miss, nops, cf_list, pl, lk, hist>>

\* cachetable_partial_reader on a kibbutz worker
cachetable_partial_reader(p) ==
    /\ P(p).job = "preader"
    /\ P(p).dw = 0
    /\ pairs' = SetPair(p, [nb_mutex_unlock_value(P(p)) EXCEPT !.job = "none"])
    /\ bjm' = [bjm EXCEPT !.cf = @ - 1]
    /\ UNCHANGED <<clock, clock_head, cleaner_head, pending_list, list_readers, next_pair,
                   ev, sleepers, cl, cp, th, disk, cachetable_miss, nops, cf_list, pl, lk, hist>>

\* ------------------------------------------------------------------------
\* The eviction thread: run_eviction_thread, run_eviction, run_eviction_on_pair
\* ------------------------------------------------------------------------
\* bytes_freed_estimate of an expensive partial eviction
PEEstimate == {0, PairSize}

\* a broadcast that reaches no waiting thread
BroadcastLost(wake) == sleepers

\* toku_cond_broadcast(&m_flow_control_cond)
Broadcast(wake) == IF wake THEN {} ELSE sleepers

\* the end of a loop pass of run_eviction: set_val / curr_cachekey, and the
\* move of m_clock_head when curr_in_clock is still the head
AfterPass(e, eviction_run, head) ==
    IF eviction_run THEN [e EXCEPT !.set_val = FALSE, !.curr_key = 0]
    ELSE IF ~e.set_val THEN [e EXCEPT !.set_val = TRUE, !.curr_key = P(head).key]
    ELSE e

AdvanceHead(head, curr) == IF head # NoPair /\ head = curr THEN clock_next(clock, head) ELSE head

\* the cycle test of run_eviction
cycle_detected(e, curr) == e.set_val /\ P(curr).key = e.curr_key

\* an eviction thread that does not look at the users of the two locks
pair_in_use_unchecked(r) == FALSE

\* run_eviction_on_pair: the pair is being accessed and is left alone
pair_in_use(r) == nb_mutex_users(r.vw, r.vq) > 0 \/ nb_mutex_users(r.dw, 0) > 0

\* run_eviction is entered (the thread was signalled or its period passed)
\* or goes round its loop once more
EvictorPass ==
    LET curr == clock_head
        r    == P(curr)
        e0   == ev
    IN  /\ ev.pc \in {"idle", "run"}
        /\ ev.pc = "idle" => (eviction_needed(ev) \/ ev.num_sleepers > 0)
        /\ IF ~eviction_needed(e0)
           THEN \* exit
                /\ sleepers' = Broadcast(e0.num_sleepers > 0 /\ should_sleeping_clients_wakeup(e0))
                /\ ev' = [e0 EXCEPT !.pc = "idle", !.set_val = FALSE, !.curr_key = 0]
                /\ UNCHANGED <<pairs, clock_head, bjm>>
           ELSE IF curr = NoPair \/ cycle_detected(e0, curr)
           THEN \* exited_early
                /\ sleepers' = Broadcast(e0.num_sleepers > 0)
                /\ ev' = [e0 EXCEPT !.pc = "idle", !.set_val = FALSE, !.curr_key = 0]
                /\ UNCHANGED <<pairs, clock_head, bjm>>
           ELSE /\ sleepers' = Broadcast(e0.num_sleepers > 0 /\ should_sleeping_clients_wakeup(e0))
                /\ IF bjm.closed \/ pair_in_use(r)
                   THEN \* run_eviction_on_pair returns false
                        /\ ev' = [AfterPass(e0, FALSE, curr) EXCEPT !.pc = "run"]
                        /\ clock_head' = AdvanceHead(clock_head, curr)
                        /\ UNCHANGED <<pairs, bjm>>
                   ELSE IF r.cnt > 0
                   THEN \* count--, lock the value, pe_est_callback next
                        /\ pairs' = SetPair(curr, [r EXCEPT !.cnt = r.cnt - 1, !.vw = 1])
                        /\ ev' = [e0 EXCEPT !.pc = "ev_pe", !.p = curr]
                        /\ bjm' = [bjm EXCEPT !.cf = @ + 1]
                        /\ UNCHANGED clock_head
                   ELSE IF ~r.dirty /\ nb_mutex_writers(r.dw) = 0
                   THEN \* try_evict_pair, evict_pair up to write_list_lock
                        /\ pairs' = SetPair(curr, [r EXCEPT !.vw = 1, !.dw = 1, !.est = 0])
                        /\ ev' = [e0 EXCEPT !.pc = "ev_wl", !.p = curr]
                        /\ bjm' = [bjm EXCEPT !.cf = @ + 1]
                        /\ UNCHANGED clock_head
                   ELSE \* try_evict_pair hands the pair to cachetable_evicter
                        /\ pairs' = SetPair(curr, [r EXCEPT !.vw = 1, !.est = r.asize,
                                                            !.job = "evicter"])
                        /\ ev' = [AfterPass(e0, TRUE, curr)
                                    EXCEPT !.pc = "run", !.size_evicting = @ + r.asize]
                        /\ bjm' = [bjm EXCEPT !.cf = @ + 1]
                        /\ clock_head' = AdvanceHead(clock_head, curr)
        /\ UNCHANGED <<clock, cleaner_head, pending_list, list_readers, next_pair, cl, cp, th,
                       disk, cachetable_miss, nops, cf_list, pl, lk, hist>>

\* run_eviction_on_pair after pe_est_callback: a cheap partial eviction (or
\* an expensive one that frees nothing) is done in place, an expensive one
\* goes to cachetable_partial_eviction
EvictorPartial(estimate) ==
    LET p == ev.p
        r == P(p)
    IN  /\ ev.pc = "ev_pe"
        /\ IF estimate = 0
           THEN /\ pairs' = SetPair(p, nb_mutex_unlock_value([r EXCEPT !.est = 0]))
                /\ ev' = [AfterPass(ev, TRUE, p) EXCEPT !.pc = "run", !.p = NoPair]
                /\ bjm' = [bjm EXCEPT !.cf = @ - 1]
           ELSE /\ pairs' = SetPair(p, [r EXCEPT !.est = estimate, !.job = "pe"])
                /\ ev' = [AfterPass(ev, TRUE, p) EXCEPT !.pc = "run", !.p = NoPair,
                                                       !.size_evicting = @ + estimate]
                /\ UNCHANGED bjm
        /\ clock_head' = AdvanceHead(clock_head, p)
        /\ UNCHANGED <<clock, cleaner_head, pending_list, list_readers, next_pair, sleepers,
                       cl, cp, th, disk, cachetable_miss, nops, cf_list, pl, lk, hist>>

\* a removal whatever the users of the value lock
can_remove_and_free_unchecked(r) == TRUE

\* cachetable_maybe_remove_and_free_pair: the pair goes only if no thread
\* uses its value lock
can_remove_and_free(r) == nb_mutex_users(r.vw, r.vq) = 0

\* evict_pair under the write list lock, for a clean pair on the eviction thread
EvictorEvict ==
    LET p  == ev.p
        r1 == [P(p) EXCEPT !.vw = 0, !.dw = 0]
    IN  /\ ev.pc = "ev_wl"
        /\ list_readers = {}
        /\ IF can_remove_and_free(r1)
           THEN /\ ListEvict(p)
                /\ pairs' = SetPair(p, cachetable_free_pair(r1))
                /\ ev' = [remove_pair_attr(AfterPass(ev, TRUE, p), r1)
                            EXCEPT !.pc = "run", !.p = NoPair]
           ELSE /\ pairs' = SetPair(p, r1)
                /\ ev' = [AfterPass(ev, TRUE, p) EXCEPT !.pc = "run", !.p = NoPair]
                /\ clock' = clock
                /\ cleaner_head' = cleaner_head
                /\ pending_list' = pending_list
                /\ clock_head' = AdvanceHead(clock_head, p)
        /\ bjm' = [bjm EXCEPT !.cf = @ - 1]
        /\ UNCHANGED <<list_readers, next_pair, sleepers, cl, cp, th, disk,
                       cachetable_miss, nops, cf_list, pl, lk, hist>>

\* cachetable_evicter on a kibbutz worker, up to write_list_lock in
\* evict_pair: the pending bit is read and cleared, a dirty pair is written
cachetable_evicter(p) ==
    LET r == P(p)
    IN  /\ r.job = "evicter"
        /\ r.dw = 0
        /\ pairs' = SetPair(p, [cachetable_write_locked_pair(r)
                                  EXCEPT !.pend = FALSE, !.dw = 1, !.job = "evicter_wl"])
        /\ disk' = IF r.dirty THEN [disk EXCEPT ![r.key] = r.val] ELSE disk
        /\ hist' = IF r.dirty THEN Written(hist, p) ELSE hist
        /\ ev' = decrease_size_evicting(ev, r.est)
        /\ UNCHANGED <<clock, clock_head, cleaner_head, pending_list, list_readers, next_pair,
                       sleepers, cl, cp, th, bjm, cachetable_miss, nops, cf_list, pl, lk>>

\* ... and under the write list lock
cachetable_evicter_remove(p) ==
    LET r1 == [P(p) EXCEPT !.vw = 0, !.dw = 0, !.job = "none"]
    IN  /\ P(p).job = "evicter_wl"
        /\ list_readers = {}
        /\ IF can_remove_and_free(r1)
           THEN /\ ListEvict(p)
                /\ pairs' = SetPair(p, cachetable_free_pair(r1))
                /\ ev' = remove_pair_attr(ev, r1)
           ELSE /\ pairs' = SetPair(p, r1)
                /\ UNCHANGED <<ev, clock, clock_head, cleaner_head, pending_list>>
        /\ bjm' = [bjm EXCEPT !.cf = @ - 1]
        /\ UNCHANGED <<list_readers, next_pair, sleepers, cl, cp, th, disk,
                       cachetable_miss, nops, cf_list, pl, lk, hist>>

\* a worker that keeps the background job of its partial eviction
cachetable_partial_eviction_keeps_job(p) ==
    LET r == P(p)
    IN  /\ r.job = "pe"
        /\ pairs' = SetPair(p, [nb_mutex_unlock_value(r) EXCEPT !.job = "none"])
        /\ ev' = decrease_size_evicting(ev, r.est)
        /\ UNCHANGED <<clock, clock_head, cleaner_head, pending_list, list_readers, next_pair,
                       sleepers, cl, cp, th, disk, bjm, cachetable_miss, nops, cf_list, pl, lk, hist>>

\* cachetable_partial_eviction on a kibbutz worker: do_partial_eviction
cachetable_partial_eviction(p) ==
    LET r == P(p)
    IN  /\ r.job = "pe"
        /\ pairs' = SetPair(p, [nb_mutex_unlock_value(r) EXCEPT !.job = "none"])
        /\ ev' = decrease_size_evicting(ev, r.est)
        /\ bjm' = [bjm EXCEPT !.cf = @ - 1]
        /\ UNCHANGED <<clock, clock_head, cleaner_head, pending_list, list_readers, next_pair,
                       sleepers, cl, cp, th, disk, cachetable_miss, nops, cf_list, pl, lk, hist>>

EvictorNext ==
    \/ EvictorPass
    \/ \E n \in PEEstimate : EvictorPartial(n)
    \/ EvictorEvict

\* ------------------------------------------------------------------------
\* The cleaner thread: cleaner::run_cleaner; cl.i is the number of iterations
\* of the for loop begun in the current run, 0 between two runs
\* ------------------------------------------------------------------------
\* cleaner_thread_rate_pair
cleaner_thread_rate_pair(r) == r.cps

\* the pairs the do-while loop visits, in order, from m_cleaner_head round
\* the clock until it is back at the first pair or has seen
\* CLEANER_N_TO_CHECK unlocked pairs
RECURSIVE cleaner_scan(_, _, _, _)
cleaner_scan(cur, first, n_seen, started) ==
    IF started /\ (cur = first \/ n_seen >= CLEANER_N_TO_CHECK) THEN <<>>
    ELSE <<cur>> \o cleaner_scan(clock_next(clock, cur), first,
                                 IF nb_mutex_users(P(cur).vw, P(cur).vq) > 0
                                 THEN n_seen ELSE n_seen + 1,
                                 TRUE)

\* the best pair of a scan: the first unlocked one with the highest score,
\* which must be above 0
\* a cleaner that takes the first unlocked pair with a score above 0
best_of_first_rated(scan, best) ==
    LET rated == {n \in 1 .. Len(scan) :
                     /\ nb_mutex_users(P(scan[n]).vw, P(scan[n]).vq) = 0
                     /\ cleaner_thread_rate_pair(P(scan[n])) > 0}
    IN  IF rated = {} THEN best
        ELSE scan[CHOOSE n \in rated : \A m \in rated : n <= m]

\* a cleaner that rates the pairs whether or not their value lock is in use
best_of_users_ignored(scan, best) ==
    LET rated == {n \in 1 .. Len(scan) : cleaner_thread_rate_pair(P(scan[n])) > 0}
        top   == {n \in rated : \A m \in rated :
                      cleaner_thread_rate_pair(P(scan[m])) <= cleaner_thread_rate_pair(P(scan[n]))}
    IN  IF rated = {} THEN best
        ELSE scan[CHOOSE n \in top : \A m \in top : n <= m]

RECURSIVE best_of(_, _)
best_of(scan, best) ==
    IF scan = <<>> THEN best
    ELSE LET cur == Head(scan)
             better == /\ nb_mutex_users(P(cur).vw, P(cur).vq) = 0
                       /\ cleaner_thread_rate_pair(P(cur)) >
                              (IF best = NoPair THEN 0 ELSE cleaner_thread_rate_pair(P(best)))
         IN  best_of(Tail(scan), IF better THEN cur ELSE best)

\* where m_cleaner_head stands after the scan
cleaner_head_after(scan) == clock_next(clock, scan[Len(scan)])

\* the end of an iteration of the for loop: the run is over after the last one
cleaner_next_iteration(c) == [c EXCEPT !.pc = "idle", !.p = NoPair, !.pend = FALSE,
                                       !.i = IF c.i >= c.iterations THEN 0 ELSE c.i]

\* an iteration of run_cleaner up to the read of the pending bit of the pair
\* it chose
CleanerPick ==
    LET scan == cleaner_scan(cleaner_head, cleaner_head, 0, FALSE)
        best == best_of(scan, NoPair)
        runs == IF cl.i = 0 THEN cl.runs + 1 ELSE cl.runs
    IN  /\ cl.pc = "idle"
        /\ cl.i > 0 \/ cl.runs < MaxCleanerRuns
        /\ IF cleaner_head = NoPair
           THEN \* nothing in the cachetable: break
                /\ cl' = [cl EXCEPT !.runs = runs, !.i = 0]
                /\ UNCHANGED <<pairs, cleaner_head, bjm>>
           ELSE /\ cleaner_head' = cleaner_head_after(scan)
                /\ IF best = NoPair
                   THEN \* nothing to clean this time round: break
                        /\ cl' = [cl EXCEPT !.runs = runs, !.i = 0]
                        /\ UNCHANGED <<pairs, bjm>>
                   ELSE IF bjm.closed
                   THEN \* bjm_add_background_job fails: continue
                        /\ cl' = cleaner_next_iteration([cl EXCEPT !.runs = runs, !.i = @ + 1])
                        /\ UNCHANGED <<pairs, bjm>>
                   ELSE /\ pairs' = SetPair(best, get_checkpoint_pending([P(best) EXCEPT !.vw = 1]))
                        /\ cl' = [cl EXCEPT !.pc = "cl_have", !.p = best, !.pend = P(best).pend,
                                            !.runs = runs, !.i = @ + 1]
                        /\ bjm' = [bjm EXCEPT !.cf = @ + 1]
        /\ UNCHANGED <<clock, clock_head, pending_list, list_readers, next_pair, ev, sleepers,
                       cp, th, disk, cachetable_miss, nops, cf_list, pl, lk, hist>>

\* write_locked_pair_for_checkpoint if the pair was pending; then the
\* cleaner callback is called if the pair still rates above 0
CleanerCheckpoint ==
    LET p  == cl.p
        r  == P(p)
        r1 == write_locked_pair_for_checkpoint(r, cl.pend)
    IN  /\ cl.pc = "cl_have"
        /\ DiskLockFreeFor(r, cl.pend)
        /\ disk' = DiskAfterCheckpointWrite(r, cl.pend)
        /\ bjm' = IF cleaner_thread_rate_pair(r1) > 0
                  THEN BjmAfterCheckpointWrite(r, cl.pend)
                  ELSE [BjmAfterCheckpointWrite(r, cl.pend) EXCEPT !.cf = @ - 1]
        /\ hist' = HistAfterCheckpointWrite(p, r, cl.pend)
        /\ ev' = EvAfterCheckpointWrite(ev, r, cl.pend)
        /\ IF cleaner_thread_rate_pair(r1) > 0
           THEN /\ pairs' = SetPair(p, r1)
                /\ cl' = [cl EXCEPT !.pc = "cl_cb", !.pend = FALSE]
           ELSE /\ pairs' = SetPair(p, nb_mutex_unlock_value(r1))
                /\ cl' = cleaner_next_iteration(cl)
        /\ UNCHANGED <<clock, clock_head, cleaner_head, pending_list, list_readers, next_pair,
                       sleepers, cp, th, cachetable_miss, nops, cf_list, pl, lk>>

\* the cleaner callback: it works on the value and unpins the pair, with the
\* cache_pressure_size it had or, the work done, with none
CleanerCallback(dirty, done) ==
    LET p == cl.p
    IN  /\ cl.pc = "cl_cb"
        /\ pairs' = SetPair(p, [cachetable_unpin_internal(P(p), dirty, P(p).val)
                                  EXCEPT !.cps = IF done THEN 0 ELSE @])
        /\ cl' = cleaner_next_iteration(cl)
        /\ bjm' = [bjm EXCEPT !.cf = @ - 1]
        /\ UNCHANGED <<clock, clock_head, cleaner_head, pending_list, list_readers, next_pair,
                       ev, sleepers, cp, th, disk, cachetable_miss, nops, cf_list, pl, lk, hist>>

CleanerNext ==
    \/ CleanerPick
    \/ CleanerCheckpoint
    \/ \E d \in BOOLEAN : CleanerCallback(d, FALSE)

\* ------------------------------------------------------------------------
\* The checkpointer: begin_checkpoint, end_checkpoint
\* ------------------------------------------------------------------------
\* the value lock of p is held by a client (pinned, or inside a call)
ClientLocked(p) ==
    \E c \in Clients :
        \/ th[c].pin = p
        \/ /\ th[c].p = p
           /\ th[c].pc \in {"gp_ckpt", "gp_pf", "gp_fetch", "nb_ckpt", "nb_pf", "nb_fetch",
                            "nb_rel", "uar_d", "uar_wl"}

\* turn_on_pending_bits
turn_on_pending_bits(ps) ==
    [p \in PairIds |-> IF p \in InTable(ps) THEN [ps[p] EXCEPT !.pend = TRUE] ELSE ps[p]]

\* begin_checkpoint: the section under write_pending_exp_lock, the read list
\* lock and write_pending_cheap_lock.  cachetable_evicter holds
\* pending_lock_expensive from its read of the pending bit to its end
begin_checkpoint ==
    /\ cp.pc = "idle"
    /\ \A p \in PairIds : P(p).job # "evicter_wl"
    /\ pairs' = turn_on_pending_bits(pairs)
    /\ pending_list' = InTable(pairs)
    /\ cp' = [cp EXCEPT !.pc = "cp_drain", !.n = @ + 1]
    /\ bjm' = [bjm EXCEPT !.clones = 0]
    /\ hist' = [HistInit EXCEPT !.active = TRUE,
                                !.marked = InTable(pairs),
                                !.image = [p \in PairIds |->
                                              IF p \notin InTable(pairs) THEN NoVal
                                              ELSE IF P(p).val = NoVal THEN disk[P(p).key]
                                              ELSE P(p).val],
                                !.dirty0 = {p \in InTable(pairs) : P(p).dirty},
                                !.held = {p \in InTable(pairs) :
                                              P(p).dirty /\ ClientLocked(p)},
                                !.unwritten = {p \in InTable(pairs) : P(p).dirty}]
    /\ UNCHANGED <<clock, clock_head, cleaner_head, list_readers, next_pair, ev, sleepers,
                   cl, th, disk, cachetable_miss, nops, cf_list, pl, lk>>

BeginCheckpoint == cp.n < MaxCheckpoints /\ begin_checkpoint

\* one more checkpoint after the last end_checkpoint
BeginCheckpointAgain == cp.n = MaxCheckpoints /\ begin_checkpoint

\* checkpoint_pending_pairs: take the next pair off the pending list and
\* ask for its value lock
CheckpointNext(p) ==
    /\ cp.pc = "cp_drain"
    /\ p \in pending_list
    /\ pending_list' = pending_list \ {p}
    /\ IF nb_mutex_writers(P(p).vw) > 0
       THEN /\ pairs' = SetPair(p, [P(p) EXCEPT !.vq = @ + 1])
            /\ cp' = [cp EXCEPT !.pc = "cp_vwait", !.p = p]
       ELSE /\ pairs' = SetPair(p, [P(p) EXCEPT !.vw = 1])
            /\ cp' = [cp EXCEPT !.pc = "cp_have", !.p = p]
    /\ UNCHANGED <<clock, clock_head, cleaner_head, list_readers, next_pair, ev, sleepers,
                   cl, th, disk, bjm, cachetable_miss, nops, cf_list, pl, lk, hist>>

\* nb_mutex_lock returns in write_pair_for_checkpoint_thread
CheckpointValueLocked ==
    LET p == cp.p
    IN  /\ cp.pc = "cp_vwait"
        /\ nb_mutex_writers(P(p).vw) = 0
        /\ pairs' = SetPair(p, [P(p) EXCEPT !.vw = 1, !.vq = @ - 1])
        /\ cp' = [cp EXCEPT !.pc = "cp_have"]
        /\ UNCHANGED <<clock, clock_head, cleaner_head, pending_list, list_readers, next_pair,
                       ev, sleepers, cl, th, disk, bjm, cachetable_miss, nops, cf_list, pl, lk, hist>>

\* the checkpoint thread releases the pair with its pending bit still set
write_pair_for_checkpoint_thread_pending(r) == [r EXCEPT !.vw = 0]

\* the checkpoint thread leaves the pending bit of a clean pair set
write_pair_for_checkpoint_thread_dirty_only(r) ==
    IF r.dirty /\ r.pend
    THEN IF has_clone_callback(r)
         THEN [clone_pair(r) EXCEPT !.pend = FALSE, !.vw = 0]
         ELSE [cachetable_write_locked_pair(r) EXCEPT !.pend = FALSE, !.vw = 0]
    ELSE [r EXCEPT !.vw = 0]

\* write_pair_for_checkpoint_thread with the value lock held: clone and
\* keep the disk lock for the clone's write, or write the value, or only
\* clear the pending bit; the value lock is released
write_pair_for_checkpoint_thread(r) ==
    IF r.dirty /\ r.pend
    THEN IF has_clone_callback(r)
         THEN [clone_pair(r) EXCEPT !.pend = FALSE, !.vw = 0]
         ELSE [cachetable_write_locked_pair(r) EXCEPT !.pend = FALSE, !.vw = 0]
    ELSE [r EXCEPT !.pend = FALSE, !.vw = 0]

CheckpointWrite ==
    LET p == cp.p
        r == P(p)
    IN  /\ cp.pc = "cp_have"
        /\ DiskLockFreeFor(r, r.pend)
        /\ pairs' = SetPair(p, write_pair_for_checkpoint_thread(r))
        /\ disk' = DiskAfterCheckpointWrite(r, r.pend)
        /\ ev' = EvAfterCheckpointWrite(ev, r, r.pend)
        /\ hist' = HistAfterCheckpointWrite(p, r, r.pend)
        /\ cp' = [cp EXCEPT !.pc = IF needs_checkpoint_write(r, r.pend) /\ has_clone_callback(r)
                                   THEN "cp_clone" ELSE "cp_drain",
                            !.p = IF needs_checkpoint_write(r, r.pend) /\ has_clone_callback(r)
                                  THEN p ELSE NoPair]
        /\ UNCHANGED <<clock, clock_head, cleaner_head, pending_list, list_readers, next_pair,
                       sleepers, cl, th, bjm, cachetable_miss, nops, cf_list, pl, lk>>

\* cachetable_only_write_locked_data(is_clone = true) and the release of the
\* disk lock
\* Variant: the flush callback is given the live value whatever is_clone.
flushed_value_live(r, is_clone) == r.val

\* the value handed to the flush callback
flushed_value(r, is_clone) == IF is_clone THEN r.clone ELSE r.val

\* Variant: the disk lock is released with the clone still attached.
write_clone_kept(r) == [r EXCEPT !.dw = 0, !.cjob = FALSE]

write_clone(r) == [r EXCEPT !.clone = NoVal, !.csize = 0, !.dw = 0, !.cjob = FALSE]

\* ... on the checkpoint thread
CheckpointCloneWrite ==
    LET p == cp.p
        r == P(p)
    IN  /\ cp.pc = "cp_clone"
        /\ pairs' = SetPair(p, write_clone(r))
        /\ disk' = [disk EXCEPT ![r.key] = flushed_value(r, TRUE)]
        /\ ev' = remove_from_size_current(ev, r.csize)
        /\ hist' = Written(hist, p)
        /\ cp' = [cp EXCEPT !.pc = "cp_drain", !.p = NoPair]
        /\ UNCHANGED <<clock, clock_head, cleaner_head, pending_list, list_readers, next_pair,
                       sleepers, cl, th, bjm, cachetable_miss, nops, cf_list, pl, lk>>

\* ... in checkpoint_cloned_pair on a checkpointing kibbutz worker
checkpoint_cloned_pair(p) ==
    LET r == P(p)
    IN  /\ r.cjob
        /\ pairs' = SetPair(p, write_clone(r))
        /\ disk' = [disk EXCEPT ![r.key] = flushed_value(r, TRUE)]
        /\ ev' = remove_from_size_current(ev, r.csize)
        /\ hist' = Written(hist, p)
        /\ bjm' = [bjm EXCEPT !.clones = @ - 1]
        /\ UNCHANGED <<clock, clock_head, cleaner_head, pending_list, list_readers, next_pair,
                       sleepers, cl, cp, th, cachetable_miss, nops, cf_list, pl, lk>>

\* an end_checkpoint that does not wait for the clone writers
CheckpointPairsDoneNoWait ==
    /\ cp.pc = "cp_drain"
    /\ pending_list = {}
    /\ cp' = [cp EXCEPT !.pc = "cp_userdata"]
    /\ UNCHANGED <<pairs, clock, clock_head, cleaner_head, pending_list, list_readers,
                   next_pair, ev, sleepers, cl, th, disk, bjm, cachetable_miss, nops, cf_list, pl, lk, hist>>

\* the pending list is empty: bjm_wait_for_jobs_to_finish returns and
\* end_checkpoint goes on to checkpoint_userdata
CheckpointPairsDone ==
    /\ cp.pc = "cp_drain"
    /\ pending_list = {}
    /\ bjm.clones = 0
    /\ cp' = [cp EXCEPT !.pc = "cp_userdata"]
    /\ UNCHANGED <<pairs, clock, clock_head, cleaner_head, pending_list, list_readers,
                   next_pair, ev, sleepers, cl, th, disk, bjm, cachetable_miss, nops, cf_list, pl, lk, hist>>

\* checkpoint_userdata, log_end_checkpoint, end_checkpoint_userdata
EndCheckpoint ==
    /\ cp.pc = "cp_userdata"
    /\ cp' = [cp EXCEPT !.pc = "idle"]
    /\ hist' = HistInit
    /\ UNCHANGED <<pairs, clock, clock_head, cleaner_head, pending_list, list_readers,
                   next_pair, ev, sleepers, cl, th, disk, bjm, cachetable_miss, nops, cf_list, pl, lk>>

CheckpointerNext ==
    \/ BeginCheckpoint
    \/ \E p \in PairIds : CheckpointNext(p)
    \/ CheckpointValueLocked
    \/ CheckpointWrite
    \/ CheckpointCloneWrite
    \/ CheckpointPairsDone
    \/ EndCheckpoint

PutNext(c) ==
    \/ \E k \in Keys, v \in Values : StartPut(c, k, v)
    \/ PutInsert(c)

UnpinNext(c) == \E d \in BOOLEAN, m \in BOOLEAN : Unpin(c, d, m)

GetAndPinNext(c) ==
    \/ \E k \in Keys, mm \in BOOLEAN : StartGetAndPin(c, k, mm)
    \/ GPBegin(c)
    \/ GPValueLocked(c)
    \/ \E pf \in BOOLEAN : GPCheckpoint(c, pf)
    \/ GPWriteLocked(c)
    \/ GPFetch(c)

NonblockingNext(c) ==
    \/ \E k \in Keys, mm \in BOOLEAN : StartGetAndPinNonblocking(c, k, mm)
    \/ NBBegin(c)
    \/ \E pf \in BOOLEAN : NBCheckpoint(c, pf)
    \/ NBPartialFetch(c)
    \/ NBWriteLocked(c)
    \/ NBFetch(c)
    \/ NBValueLocked(c)
    \/ NBRelease(c)

RemoveNext(c) ==
    \/ StartUnpinAndRemove(c)
    \/ UARDiskLocked(c)
    \/ UARRemove(c)
    \/ UARFree(c)

PrefetchNext(c) ==
    \/ \E k \in Keys, pf \in BOOLEAN : StartPrefetch(c, k, pf)
    \/ \E pf \in BOOLEAN : PrefetchWriteLocked(c, pf)

\* the step that only a cache with room enables
RoomNext(c) == GPPartialFetch(c)

\* the steps that only a full cache enables
FlowControlNext(c) ==
    \/ PutWake(c)
    \/ GPAgain(c)
    \/ GPWake(c)

ReaderNext == \E p \in PairIds : cachetable_reader(p) \/ cachetable_partial_reader(p)

EvictionJobNext ==
    \E p \in PairIds :
        \/ cachetable_evicter(p)
        \/ cachetable_evicter_remove(p)
        \/ cachetable_partial_eviction(p)

CloneJobNext == \E p \in PairIds : checkpoint_cloned_pair(p)

\* ------------------------------------------------------------------------
\* Reserving memory for a loader: evictor::reserve_memory and
\* evictor::release_reserved_memory.  The fraction is fraction_num /
\* FractionDen; the client keeps the amount it was given in ret until it
\* releases it.
\* ------------------------------------------------------------------------
\* the whole of the reservable memory, whatever the fraction
reserved_memory_whole(fraction_num, reservable) == reservable

\* the product of the double fraction and the difference, converted to
\* uint64_t
reserved_memory(fraction_num, reservable) == (fraction_num * reservable) \div FractionDen

reserve_memory(c, fraction_num) ==
    LET r  == reserved_memory(fraction_num, ev.low_size_watermark - ev.size_reserved)
        e1 == add_to_size_current([ev EXCEPT !.size_reserved = @ + r], r)
        t  == [StartCall(c, "reserve_memory", fraction_num, NoVal, FALSE) EXCEPT !.ret = r]
    IN  /\ AtRest(c) /\ th[c].pin = NoPair
        /\ ~bjm.closed
        /\ th[c].op # "reserve_memory"
        /\ IF should_client_thread_sleep(e1)
           THEN /\ th' = [th EXCEPT ![c] = [t EXCEPT !.pc = "rm_sleep"]]
                /\ ev' = [e1 EXCEPT !.num_sleepers = @ + 1]
                /\ sleepers' = sleepers \cup {c}
           ELSE /\ th' = [th EXCEPT ![c] = Done(t, r)]
                /\ ev' = e1
                /\ UNCHANGED sleepers
        /\ UNCHANGED <<pairs, clock, clock_head, cleaner_head, pending_list, list_readers,
                       next_pair, cl, cp, disk, bjm, cachetable_miss, nops, cf_list, pl, lk, hist>>

ReserveWake(c) ==
    /\ th[c].pc = "rm_sleep" /\ c \notin sleepers
    /\ ev' = [ev EXCEPT !.num_sleepers = @ - 1]
    /\ th' = [th EXCEPT ![c] = Done(@, @.ret)]
    /\ UNCHANGED <<pairs, clock, clock_head, cleaner_head, pending_list, list_readers,
                   next_pair, sleepers, cl, cp, disk, bjm, cachetable_miss, nops, cf_list, pl, lk, hist>>

release_reserved_memory(c) ==
    LET r == th[c].ret
    IN  /\ th[c].pc = "done" /\ th[c].op = "reserve_memory"
        /\ ev' = [remove_from_size_current(ev, r) EXCEPT !.size_reserved = @ - r]
        /\ th' = [th EXCEPT ![c] = Done(StartCall(c, "release_reserved_memory", 0, NoVal, FALSE), 0)]
        /\ UNCHANGED <<pairs, clock, clock_head, cleaner_head, pending_list, list_readers,
                       next_pair, sleepers, cl, cp, disk, bjm, cachetable_miss, nops, cf_list, pl, lk, hist>>

ReserveNext(c) ==
    \/ \E fraction_num \in 0 .. FractionDen : reserve_memory(c, fraction_num)
    \/ ReserveWake(c)
    \/ release_reserved_memory(c)

\* ------------------------------------------------------------------------
\* The pair list on its own: pair_list::put and pair_list::evict
\* under the write list lock, of pairs whose fullhash is given by one of
\* HashFunctions.
\* ------------------------------------------------------------------------
NumListPairs == 6
ListPairs == 1 .. NumListPairs

\* the fullhash of each pair: all in one bucket, spread over the buckets of
\* the initial table, and colliding in the initial table only
HashFunctions ==
    { [p \in ListPairs |-> 0],
      [p \in ListPairs |-> p],
      [p \in ListPairs |-> INITIAL_PAIR_LIST_SIZE * (p % 3) + p \div 3] }

pair_list_put(p) ==
    /\ pairs[p].st # "live"
    /\ list_readers = {}
    /\ clock' = add_to_clock(clock, clock_head, p)
    /\ clock_head' = IF clock_head = NoPair THEN p ELSE clock_head
    /\ cleaner_head' = IF clock_head = NoPair THEN p ELSE cleaner_head
    /\ pl' = hash_put(pl, p, pairs)
    /\ pairs' = [pairs EXCEPT ![p].st = "live", ![p].cnt = CLOCK_INITIAL_COUNT]
    /\ UNCHANGED <<pending_list, list_readers, next_pair, ev, sleepers, cl, cp, th, disk,
                   bjm, cachetable_miss, nops, cf_list, lk, hist>>

pair_list_evict(p) ==
    /\ pairs[p].st = "live"
    /\ list_readers = {}
    /\ ListEvict(p)
    /\ pl' = hash_evict(pl, p, pairs)
    /\ pairs' = [pairs EXCEPT ![p] = Unlinked(@)]
    /\ UNCHANGED <<list_readers, next_pair, ev, sleepers, cl, cp, th, disk,
                   bjm, cachetable_miss, nops, cf_list, lk, hist>>

PairListNext == \E p \in ListPairs : pair_list_put(p) \/ pair_list_evict(p)

\* ------------------------------------------------------------------------
\* The list of cachefiles: toku_cachetable_reserve_filenum,
\* toku_cachetable_openfd_with_filenum and the removal of a cachefile from
\* the list by toku_cachefile_close.  Each runs under the write lock of the
\* list.  A failed assertion stops the program.
\* ------------------------------------------------------------------------
TableVarsNoLocks ==
    <<pairs, clock, clock_head, cleaner_head, pending_list, list_readers, next_pair, ev,
      sleepers, cl, cp, th, disk, bjm, cachetable_miss, nops, hist, pl, cf_list>>

TableVars == <<pairs, clock, clock_head, cleaner_head, pending_list, list_readers,
               next_pair, ev, sleepers, cl, cp, th, disk, bjm, cachetable_miss, nops, hist,
               pl, lk>>

RemoveAt(s, i) == [j \in 1 .. Len(s) - 1 |-> IF j < i THEN s[j] ELSE s[j + 1]]

ListedFilenums(head) == {head[i].filenum : i \in DOMAIN head}
ListedFileids(head) == {head[i].fileid : i \in DOMAIN head}

\* m_next_filenum_to_use is returned without looking at the list
reserve_unchecked(next, used) == next

\* the try_again loop
RECURSIVE reserve_try_again(_, _)
reserve_try_again(next, used) ==
    IF next \in used THEN reserve_try_again((next + 1) % FilenumModulus, used) ELSE next

toku_cachetable_reserve_filenum ==
    LET filenum == reserve_try_again(cf_list.next, ListedFilenums(cf_list.head))
    IN  /\ ~cf_list.aborted
        /\ Len(cf_list.held) < MaxReserved
        /\ cf_list' = [cf_list EXCEPT !.next = (filenum + 1) % FilenumModulus,
                                      !.ret = <<filenum>>,
                                      !.held = Append(@, filenum)]
        /\ UNCHANGED TableVars

\* a caller opens an fd on the file with the given file-id, with a filenum it
\* holds
toku_cachetable_openfd_with_filenum(fileid, h) ==
    LET filenum == cf_list.held[h]
        head    == cf_list.head
        extant  == {i \in DOMAIN head : head[i].fileid = fileid}
        newcf   == [fileid |-> fileid, filenum |-> filenum]
        c0      == [cf_list EXCEPT !.held = RemoveAt(@, h), !.fd = <<fileid>>]
    IN  /\ ~cf_list.aborted
        /\ h \in DOMAIN cf_list.held
        /\ cf_list' =
             IF filenum = FILENUM_NONE
             THEN [cf_list EXCEPT !.aborted = TRUE]
             ELSE IF extant # {}
             THEN [c0 EXCEPT !.cf = <<head[CHOOSE i \in extant : TRUE]>>]
             ELSE IF filenum \in ListedFilenums(head)
             THEN [cf_list EXCEPT !.aborted = TRUE]
             ELSE [c0 EXCEPT !.head = <<newcf>> \o head, !.cf = <<newcf>>]
        /\ UNCHANGED TableVars

\* toku_cachefile_close of a file that has no pair in the cachetable; clients
\* never close a cachefile that is being checkpointed (it asserts that
\* for_checkpoint is not set)
remove_cf_from_cachefiles_list(i) ==
    /\ ~cf_list.aborted
    /\ i \in DOMAIN cf_list.head
    /\ cf_list.head[i].filenum \notin cf_list.for_checkpoint
    /\ InTable(pairs) = {}
    /\ cf_list' = [cf_list EXCEPT
                      !.head = RemoveAt(@, i),
                      !.cf = <<>>, !.fd = <<>>]
    /\ UNCHANGED TableVars

CachefileNext ==
    \/ toku_cachetable_reserve_filenum
    \/ \E fileid \in FileIds, h \in 1 .. MaxReserved :
           toku_cachetable_openfd_with_filenum(fileid, h)
    \/ \E i \in 1 .. MaxFiles : remove_cf_from_cachefiles_list(i)

\* ------------------------------------------------------------------------
\* The cachefiles of a checkpoint, in a cachetable that holds no pair (the
\* pending list is empty and nothing is written): begin_checkpoint calls
\* note_pin_by_checkpoint for every listed file and sets its for_checkpoint;
\* end_checkpoint collects the files with for_checkpoint and, after their
\* userdata callbacks, hands them to remove_cachefiles.
\* ------------------------------------------------------------------------
\* fill_checkpoint_cfs: the listed files with for_checkpoint, in list order
fill_checkpoint_cfs(head, for_checkpoint) ==
    LET InCheckpoint(cf) == cf.filenum \in for_checkpoint
        Filenum(cfs)     == [i \in DOMAIN cfs |-> cfs[i].filenum]
    IN  Filenum(SelectSeq(head, InCheckpoint))

\* remove_cachefiles from file i on; fails are the files whose
\* note_unpin_by_checkpoint returns an error, c.r is the r of the loop
RECURSIVE remove_cachefiles(_, _, _, _)
remove_cachefiles(c, checkpoint_cfs, i, fails) ==
    IF i > Len(checkpoint_cfs) THEN c
    ELSE LET cf == checkpoint_cfs[i]
             c1 == [c EXCEPT !.for_checkpoint = @ \ {cf}, !.unpinned = @ \cup {cf}]
         IN  IF cf \in fails
             THEN [c1 EXCEPT !.r = <<1>>]
             ELSE remove_cachefiles(c1, checkpoint_cfs, i + 1, fails)

BeginCheckpointFiles ==
    /\ ~cf_list.aborted
    /\ cf_list.ck = "idle"
    /\ InTable(pairs) = {}
    /\ cf_list' = [cf_list EXCEPT !.for_checkpoint = ListedFilenums(cf_list.head),
                                  !.num_files = Len(cf_list.head),
                                  !.ck = "begun",
                                  !.r = <<>>, !.cfs = <<>>, !.unpinned = {}]
    /\ UNCHANGED TableVars

EndCheckpointFiles(fails) ==
    LET checkpoint_cfs == fill_checkpoint_cfs(cf_list.head, cf_list.for_checkpoint)
        c0 == [cf_list EXCEPT !.ck = "idle", !.cfs = checkpoint_cfs, !.r = <<0>>]
    IN  /\ ~cf_list.aborted
        /\ cf_list.ck = "begun"
        /\ InTable(pairs) = {}
        /\ cf_list' = IF Len(checkpoint_cfs) # cf_list.num_files
                      THEN [cf_list EXCEPT !.aborted = TRUE]
                      ELSE remove_cachefiles(c0, checkpoint_cfs, 1, fails)
        /\ UNCHANGED TableVars

CheckpointFilesNext ==
    \/ BeginCheckpointFiles
    \/ \E fails \in SUBSET cf_list.for_checkpoint : EndCheckpointFiles(fails)

\* ------------------------------------------------------------------------
\* Closing a cachefile: toku_cachefile_close waits for the background jobs
\* of the file, which also stops the job manager from accepting new ones,
\* and then cachetable_flush_cachefile writes every dirty pair of the file on
\* a worker, waits for the writes, and removes all the pairs of the file.
\* The caller guarantees that no client uses the file meanwhile.
\* ------------------------------------------------------------------------
\* no client is in a call or holds a pin
NoClientUsesFile == \A c \in Clients : AtRest(c) /\ th[c].pin = NoPair

\* the pair is written by a worker that drops what it was asked to write
cachetable_flush_pair_dropped(p) ==
    /\ P(p).job = "flush"
    /\ pairs' = SetPair(p, [P(p) EXCEPT !.job = "none"])
    /\ UNCHANGED <<clock, clock_head, cleaner_head, pending_list, list_readers, next_pair,
                   ev, sleepers, cl, cp, th, disk, bjm, cachetable_miss, nops, cf_list, pl, lk, hist>>

\* bjm_wait_for_jobs_to_finish(cf->bjm), then the first two loops of
\* cachetable_flush_cachefile: list the pairs, enqueue the dirty ones
FlushBegin ==
    /\ NoClientUsesFile
    /\ ~bjm.closed /\ bjm.cf = 0
    /\ cp.pc = "idle" /\ cl.pc = "idle"
    /\ list_readers = {}
    /\ bjm' = [bjm EXCEPT !.closed = TRUE, !.list = InTable(pairs)]
    /\ pairs' = [p \in DOMAIN pairs |->
                    IF P(p).st = "live" /\ P(p).dirty
                    THEN [P(p) EXCEPT !.job = "flush"] ELSE P(p)]
    /\ UNCHANGED <<clock, clock_head, cleaner_head, pending_list, list_readers, next_pair,
                   ev, sleepers, cl, cp, th, disk, cachetable_miss, nops, cf_list, pl, lk, hist>>

cachetable_flush_pair_for_close(p) ==
    LET r == P(p)
    IN  /\ r.job = "flush"
        /\ disk' = [disk EXCEPT ![r.key] = r.val]
        /\ pairs' = SetPair(p, [r EXCEPT !.dirty = FALSE, !.job = "none"])
        /\ UNCHANGED <<clock, clock_head, cleaner_head, pending_list, list_readers, next_pair,
                       ev, sleepers, cl, cp, th, bjm, cachetable_miss, nops, cf_list, pl, lk, hist>>

\* the pair list after cachetable_maybe_remove_and_free_pair of every pair
\* of todo
RECURSIVE flush_remove_pairs(_, _)
flush_remove_pairs(l, todo) ==
    IF todo = {} THEN l
    ELSE LET p == CHOOSE q \in todo : TRUE
         IN  flush_remove_pairs(
                 [clock        |-> SeqWithout(l.clock, p),
                  clock_head   |-> pair_remove_head(l.clock, l.clock_head, p),
                  cleaner_head |-> pair_remove_head(l.clock, l.cleaner_head, p),
                  e            |-> remove_pair_attr(l.e, P(p))],
                 todo \ {p})

\* bjm_wait_for_jobs_to_finish of the flush jobs, the removal loop under the
\* write list lock, bjm_reset(cf->bjm)
FlushRemove ==
    LET gone == {p \in bjm.list : can_remove_and_free(P(p))}
        l    == flush_remove_pairs([clock |-> clock, clock_head |-> clock_head,
                                    cleaner_head |-> cleaner_head, e |-> ev], gone)
    IN  /\ bjm.closed
        /\ \A p \in bjm.list : P(p).job # "flush"
        /\ list_readers = {}
        /\ clock' = l.clock
        /\ clock_head' = l.clock_head
        /\ cleaner_head' = l.cleaner_head
        /\ ev' = l.e
        /\ pending_list' = pending_list \ gone
        /\ pairs' = [p \in DOMAIN pairs |->
                        IF p \in gone THEN cachetable_free_pair(P(p)) ELSE P(p)]
        /\ bjm' = [bjm EXCEPT !.closed = FALSE, !.list = {}]
        /\ UNCHANGED <<list_readers, next_pair, sleepers, cl, cp, th, disk,
                       cachetable_miss, nops, cf_list, pl, lk, hist>>

FlushNext ==
    \/ FlushBegin
    \/ \E p \in PairIds : cachetable_flush_pair_for_close(p)
    \/ FlushRemove

\* ------------------------------------------------------------------------
\* Specifications
\* ------------------------------------------------------------------------
\* Pinning under cache pressure: two clients that put, pin and unpin, the
\* eviction thread with its worker jobs, and the cleaner thread.
InitPin == Created(SizeLimit)

NextPin ==
    \/ \E c \in Clients : PutNext(c) \/ UnpinNext(c) \/ GetAndPinNext(c) \/ FlowControlNext(c)
    \/ EvictorNext
    \/ EvictionJobNext
    \/ CleanerNext

SpecPin == InitPin /\ [][NextPin]_vars

\* The whole client API under cache pressure: two clients, the prefetch
\* readers, the eviction thread with its worker jobs.
InitClient == Created(SizeLimit)

NextClient ==
    \/ \E c \in Clients : \/ PutNext(c) \/ UnpinNext(c) \/ GetAndPinNext(c)
                          \/ NonblockingNext(c) \/ RemoveNext(c) \/ PrefetchNext(c)
                          \/ FlowControlNext(c) \/ NBWake(c)
    \/ ReaderNext
    \/ EvictorNext
    \/ EvictionJobNext

SpecClient == InitClient /\ [][NextClient]_vars

\* Checkpoints in a cache with room: two clients that put, pin (blocking or
\* not), unpin and remove, the checkpointer with its clone writers, and the
\* cleaner thread.  Nothing is evicted, the limit is never reached.
RoomyLimit == 16

InitCkpt == Created(RoomyLimit)

NextCkpt ==
    \/ \E c \in Clients : \/ PutNext(c) \/ UnpinNext(c) \/ GetAndPinNext(c) \/ RoomNext(c)
                          \/ NonblockingNext(c) \/ RemoveNext(c)
    \/ CheckpointerNext
    \/ CloneJobNext
    \/ CleanerNext

SpecCkpt == InitCkpt /\ [][NextCkpt]_vars

\* clients that put, pin, try to pin with maybe_get_and_pin and unpin, with
\* the checkpointer, its clone writers and the cleaner
MaybeNext(c) ==
    \/ toku_cachetable_maybe_get_and_pin(c)
    \/ toku_cachetable_maybe_get_and_pin_clean(c)
    \/ MaybeGetAndPin(c)

InitMaybe == Created(RoomyLimit)

NextMaybe ==
    \/ \E c \in Clients : \/ PutNext(c) \/ UnpinNext(c) \/ GetAndPinNext(c) \/ RoomNext(c)
                          \/ MaybeNext(c)
    \/ CheckpointerNext
    \/ CloneJobNext
    \/ CleanerNext

SpecMaybe == InitMaybe /\ [][NextMaybe]_vars

\* one client that puts, pins and unpins the blocks of the file in a table
\* of ClockLimit bytes, with the eviction thread and its worker jobs; the
\* client may make ClockCalls calls, so that eviction starts with its last
\* call and it never finds a value lock taken by the eviction
ClockLimit == 4
ClockCalls == 3

InitEvict == CreatedTable(ClockLimit) /\ nops = MaxOps - ClockCalls

NextEvict ==
    \/ \E k \in FileKeys, v \in Values : StartPut("c1", k, v)
    \/ PutInsert("c1")
    \/ UnpinNext("c1")
    \/ \E k \in Keys, mm \in BOOLEAN : StartGetAndPin("c1", k, mm)
    \/ GPBegin("c1")
    \/ \E pf \in BOOLEAN : GPCheckpoint("c1", pf)
    \/ GPPartialFetch("c1")
    \/ GPWriteLocked("c1")
    \/ GPFetch("c1")
    \/ EvictorNext
    \/ EvictionJobNext

SpecEvict == InitEvict /\ [][NextEvict]_vars

\* the eviction thread is scheduled again and again (it is signalled or its
\* period passes), and every job enqueued on the kibbutz is run by a worker
EvictionFairness ==
    /\ WF_vars(EvictorNext)
    /\ \A p \in PairIds : /\ WF_vars(cachetable_evicter(p))
                          /\ WF_vars(cachetable_evicter_remove(p))
                          /\ WF_vars(cachetable_partial_eviction(p))

FairEvict == SpecEvict /\ EvictionFairness

\* two clients that put, pin and unpin under memory pressure, with the
\* eviction thread and its worker jobs
NextSleep ==
    \/ \E c \in Clients : PutNext(c) \/ UnpinNext(c) \/ GetAndPinNext(c) \/ FlowControlNext(c)
    \/ EvictorNext
    \/ EvictionJobNext

SpecSleep == InitPin /\ [][NextSleep]_vars

\* ... the eviction thread and the workers fairly scheduled; the clients may
\* stop anywhere
FairSleep == SpecSleep /\ EvictionFairness

\* Closing the file under cache pressure: two clients that put, pin, unpin
\* and remove, the eviction thread with its worker jobs, and closes of the
\* file whenever no client uses it.  With the calls of a behaviour bounded by
\* MaxOps no client waits for a pair that is being removed, so the remover
\* never has to wait for users.
NextFlush ==
    \/ \E c \in Clients : \/ PutNext(c) \/ UnpinNext(c) \/ GetAndPinNext(c)
                          \/ StartUnpinAndRemove(c) \/ UARDiskLocked(c) \/ UARRemove(c)
                          \/ FlowControlNext(c)
    \/ EvictorNext
    \/ EvictionJobNext
    \/ FlushNext

SpecFlush == InitPin /\ [][NextFlush]_vars

\* The list of cachefiles: callers that reserve filenums, open the files
\* FileIds with the filenums they hold, and close open cachefiles, on a
\* cachetable that holds no pair.
InitFiles == Created(RoomyLimit)

SpecFiles == InitFiles /\ [][CachefileNext]_vars

\* ... with checkpoints of the files
NextCkptFiles == CachefileNext \/ CheckpointFilesNext

SpecCkptFiles == InitFiles /\ [][NextCkptFiles]_vars

\* Reserving memory: two loaders that reserve and release memory, one of which
\* puts and unpins pairs while it holds no reservation, and the eviction
\* thread with its worker jobs.  The
\* size limit is drawn from ReserveLimits.  Every pair of the table was put
\* and is dirty, so the eviction thread evicts none in place.
ReserveLimits == {2, 4}

InitReserve == \E size_limit \in ReserveLimits : Created(size_limit)

NextReserve ==
    \/ \E c \in Clients : ReserveNext(c)
    \/ \E k \in Keys, v \in Values : th["c2"].op # "reserve_memory" /\ StartPut("c2", k, v)
    \/ PutInsert("c2") \/ UnpinNext("c2") \/ PutWake("c2")
    \/ EvictorPass
    \/ \E n \in PEEstimate : EvictorPartial(n)
    \/ EvictionJobNext

SpecReserve == InitReserve /\ [][NextReserve]_vars

\* The pair list: an empty list of pair_list::init, pairs that are put and
\* evicted in any order.
InitList ==
    /\ \E fullhash \in HashFunctions :
           pairs = [p \in ListPairs |-> [BlankPair EXCEPT !.key = p, !.fullhash = fullhash[p]]]
    /\ clock = <<>>
    /\ clock_head = NoPair
    /\ cleaner_head = NoPair
    /\ pending_list = {}
    /\ list_readers = {}
    /\ next_pair = NumListPairs + 1
    /\ ev = evictor_init(RoomyLimit)
    /\ sleepers = {}
    /\ cl = [pc |-> "idle", p |-> NoPair, pend |-> FALSE, runs |-> 0, iterations |-> 1, i |-> 0]
    /\ cp = [pc |-> "idle", p |-> NoPair, n |-> 0]
    /\ th = [c \in Clients |-> IdleThread]
    /\ disk = [k \in ListPairs |-> 0]
    /\ bjm = [cf |-> 0, clones |-> 0, closed |-> FALSE, list |-> {}]
    /\ cf_list = cachefile_list_init
    /\ pl = pair_list_init
    /\ lk = lock_init
    /\ cachetable_miss = 0
    /\ nops = 0
    /\ hist = HistInit

SpecList == InitList /\ [][PairListNext]_vars

\* The size accounting: a client that puts, pins and unpins pairs, a loader
\* that reserves and releases memory, the checkpointer and its clone job,
\* under a limit that nothing fills, so that no caller of reserve_memory has
\* to wait.
NextSize ==
    \/ PutNext("c1") \/ UnpinNext("c1") \/ GetAndPinNext("c1") \/ RoomNext("c1")
    \/ \E fraction_num \in 0 .. FractionDen : reserve_memory("c2", fraction_num)
    \/ release_reserved_memory("c2")
    \/ CheckpointerNext
    \/ CloneJobNext

SpecSize == InitCkpt /\ [][NextSize]_vars

\* Checkpoints under cache pressure: one client that puts, pins, unpins and
\* removes, the eviction thread with its worker jobs, the checkpointer and
\* its clone job.
NextEvCkpt ==
    \/ PutNext("c1") \/ UnpinNext("c1") \/ GetAndPinNext("c1") \/ FlowControlNext("c1")
    \/ StartUnpinAndRemove("c1") \/ UARDiskLocked("c1") \/ UARRemove("c1")
    \/ EvictorNext
    \/ EvictionJobNext
    \/ CheckpointerNext
    \/ CloneJobNext

SpecEvCkpt == InitPin /\ [][NextEvCkpt]_vars

\* Two checkpoints in a row under cache pressure: one client that puts,
\* pins, unpins and removes, the eviction thread with its worker jobs, the
\* checkpointer and its clone job.
NextTwoCkpt ==
    \/ NextEvCkpt
    \/ BeginCheckpointAgain

SpecTwoCkpt == InitPin /\ [][NextTwoCkpt]_vars

\* a table of eight clean, unpinned pairs with the cache_pressure_size of
\* PressureSizes, put in the order of their keys, and a cleaner set to
\* CleanerIterations iterations a run (toku_set_cleaner_iterations); the
\* cleaner head may stand anywhere in the clock, the cleaner is the only
\* thread that acts
PressureSizes == <<0, 5, 0, 10, 0, 3, 0, 0>>
CleanerIterations == 4

InitCleaner ==
    /\ pairs = [p \in 1 .. Len(PressureSizes) |->
                   cachetable_insert_at(p, 0, PairSize, PressureSizes[p], FALSE, FALSE)]
    /\ clock = [p \in 1 .. Len(PressureSizes) |-> p]
    /\ clock_head = 1
    /\ cleaner_head \in 1 .. Len(PressureSizes)
    /\ pending_list = {}
    /\ list_readers = {}
    /\ next_pair = Len(PressureSizes) + 1
    /\ ev = [evictor_init(Len(PressureSizes) * PairSize)
               EXCEPT !.size_current = Len(PressureSizes) * PairSize]
    /\ sleepers = {}
    /\ cl = [pc |-> "idle", p |-> NoPair, pend |-> FALSE, runs |-> 0,
             iterations |-> CleanerIterations, i |-> 0]
    /\ cp = [pc |-> "idle", p |-> NoPair, n |-> 0]
    /\ th = [c \in Clients |-> IdleThread]
    /\ disk = [k \in 1 .. Len(PressureSizes) |-> 0]
    /\ bjm = [cf |-> 0, clones |-> 0, closed |-> FALSE, list |-> {}]
    /\ cf_list = cachefile_list_init
    /\ pl = pair_list_init
    /\ lk = lock_init
    /\ cachetable_miss = 0
    /\ nops = 0
    /\ hist = HistInit

NextCleaner ==
    \/ CleanerPick
    \/ CleanerCheckpoint
    \/ \E d \in BOOLEAN, done \in BOOLEAN : CleanerCallback(d, done)

SpecCleaner == InitCleaner /\ [][NextCleaner]_vars

\* ------------------------------------------------------------------------
\* Who holds a pair's value lock
\* ------------------------------------------------------------------------
\* the positions of a client call at which the call holds th[c].p's value lock
LockedPcs == {"gp_ckpt", "gp_pf", "gp_fetch", "nb_ckpt", "nb_pf", "nb_fetch", "nb_rel",
              "uar_d", "uar_wl"}

ClientHolds(c, p) == th[c].pin = p \/ (th[c].p = p /\ th[c].pc \in LockedPcs)

EvictorHolds(p) == (ev.pc \in {"ev_pe", "ev_wl"} /\ ev.p = p)
                   \/ P(p).job \in {"evicter", "evicter_wl", "pe"}

CleanerHolds(p) == cl.pc \in {"cl_have", "cl_cb"} /\ cl.p = p

Holders(p) ==
    {c \in Clients : ClientHolds(c, p)}
        \cup (IF ev.pc \in {"ev_pe", "ev_wl"} /\ ev.p = p THEN {"evictor"} ELSE {})
        \cup (IF CleanerHolds(p) THEN {"cleaner"} ELSE {})
        \cup (IF cp.pc = "cp_have" /\ cp.p = p THEN {"checkpointer"} ELSE {})
        \cup (IF P(p).job # "none" THEN {"worker"} ELSE {})

\* C1: a pair's value lock has at most one holder at a time, its writer count
\* says whether it has one, and while a client holds a pin on a pair the
\* pair stays in the table and neither the evictor (thread or worker job)
\* nor the cleaner holds it.
C1_ExclusivePin ==
    \A p \in PairIds :
        /\ Cardinality(Holders(p)) <= 1
        /\ (Holders(p) # {}) <=> (nb_mutex_writers(P(p).vw) = 1)
        /\ \A c \in Clients :
               th[c].pin = p => /\ P(p).st = "live"
                                /\ ~EvictorHolds(p)
                                /\ ~CleanerHolds(p)

\* a client holds a pin on a pair that the eviction thread, short of memory,
\* has just looked at and passed over
C1_Witness ==
    \E c \in Clients :
        /\ th[c].pin # NoPair
        /\ AtRest(c)
        /\ ev.pc = "run" /\ ev.set_val
        /\ eviction_needed(ev)
        /\ ev.curr_key = P(th[c].pin).key

C3_EveryDirtyPair ==
    cp.pc = "cp_userdata" => (hist.unwritten \cup hist.discarded) = {}

\* C3: when end_checkpoint reaches checkpoint_userdata, every pair that was
\* dirty at begin_checkpoint and that unpin_and_remove has not taken out of
\* the table since has been passed to flush_callback with write = true, and
\* no clone is left to write.
C3_DirtyWritten ==
    cp.pc = "cp_userdata" =>
        /\ hist.unwritten = {}
        /\ \A p \in PairIds : ~P(p).cjob /\ P(p).clone = NoVal

\* end_checkpoint is at checkpoint_userdata after a checkpoint that had a
\* dirty pair with a clone callback and one without to write
C3_Witness ==
    /\ cp.pc = "cp_userdata"
    /\ \E p, q \in hist.dirty0 \ hist.discarded :
          /\ has_clone_callback(P(p)) /\ ~has_clone_callback(P(q))
          /\ disk[P(p).key] = hist.image[p] /\ disk[P(q).key] = hist.image[q]

\* ------------------------------------------------------------------------
\* unpin_and_remove
\* ------------------------------------------------------------------------
\* C4: once unpin_and_remove has taken a pair out of the table, and so after
\* it returns, the pair is on no hash chain and in no list, no client holds
\* it, and a lookup of its key finds nothing or a pair inserted later; a
\* get_and_pin of the key that the same client makes next does not return the
\* removed pair: it inserts a pair and fetches it, or finds one that another
\* call has inserted since.
C4_RemovedKeyMisses ==
    \A c \in Clients :
        /\ (th[c].op = "unpin_and_remove" /\ th[c].pc \in {"uar_wait", "done"}) =>
              LET p == th[c].p
              IN  /\ p \notin InTable(pairs)
                  /\ \A i \in 1 .. Len(clock) : clock[i] # p
                  /\ p \notin pending_list
                  /\ \A d \in Clients : th[d].pin # p
                  /\ find_pair(pairs, th[c].k) \in {NoPair} \cup (p + 1 .. MaxPairs)
        /\ (th[c].op = "get_and_pin" /\ th[c].pc = "done" /\ th[c].rmk = th[c].k) =>
              /\ th[c].pin > th[c].rmp
              /\ P(th[c].pin).by = c =>
                    (th[c].missed /\ th[c].nf = 1 /\ th[c].val = disk[th[c].k])

\* a client has removed a pair it had put, and its next get_and_pin of the
\* key has missed and returned the value of the file
C4_Witness ==
    \E c \in Clients :
        /\ th[c].op = "get_and_pin" /\ th[c].pc = "done"
        /\ th[c].rmk = th[c].k
        /\ P(th[c].rmp).st = "freed"
        /\ th[c].missed /\ th[c].nf = 1
        /\ th[c].val = disk[th[c].k]

\* C5: a client holds a pin only on a pair that is in the table, a
\* get_and_pin_nonblocking that returns 0 returns the value of such a pair,
\* one that waited for a pair that was removed meanwhile returns
\* TOKUDB_TRY_AGAIN, and a pair is not freed while a thread waits for its
\* value lock or holds it.
C5_RemoveRacesNonblocking ==
    \A c \in Clients :
        /\ th[c].pin # NoPair => P(th[c].pin).st = "live"
        /\ (th[c].op = "get_and_pin_nonblocking" /\ th[c].pc = "done" /\ th[c].ret = 0) =>
              /\ th[c].pin = th[c].p
              /\ P(th[c].pin).key = th[c].k
              /\ th[c].val = P(th[c].pin).val
        /\ (th[c].op = "get_and_pin_nonblocking" /\ th[c].pc = "done"
                /\ th[c].p # NoPair /\ P(th[c].p).st # "live") =>
              th[c].ret = TOKUDB_TRY_AGAIN
        /\ th[c].pc \in {"nb_vwait", "nb_rel", "gp_vwait"} =>
              P(th[c].p).st \in {"live", "removed"}

\* unpin_and_remove has taken a pair out of the table and waits for a
\* get_and_pin_nonblocking that is blocked on the pair's value lock
C5_Witness ==
    \E c, d \in Clients :
        /\ th[c].pc = "uar_wait"
        /\ th[d].pc = "nb_vwait"
        /\ th[d].p = th[c].p
        /\ P(th[c].p).st = "removed"

\* ------------------------------------------------------------------------
\* put and get_and_pin
\* ------------------------------------------------------------------------
\* C6: when get_and_pin of a key returns while the pair a put inserted for the
\* key is still in the table, it returns 0 with that pair pinned and the
\* pair's value, and has neither missed nor called fetch_callback.
C6_PutThenGet ==
    \A c \in Clients :
        (th[c].op = "get_and_pin" /\ th[c].pc = "done") =>
            \A q \in InTable(pairs) :
                (P(q).key = th[c].k /\ P(q).byput) =>
                    /\ th[c].ret = 0
                    /\ th[c].pin = q
                    /\ nb_mutex_writers(P(q).vw) = 1
                    /\ th[c].val = P(q).val
                    /\ ~th[c].missed
                    /\ th[c].nf = 0

\* a client has put a value, and its get_and_pin has returned that value,
\* still dirty, from the pair the put inserted
C6_Witness ==
    \E c \in Clients :
        /\ th[c].op = "get_and_pin" /\ th[c].pc = "done"
        /\ th[c].pin # NoPair
        /\ P(th[c].pin).byput /\ P(th[c].pin).by = c
        /\ P(th[c].pin).dirty
        /\ th[c].val \in Values
        /\ th[c].nf = 0

\* C7: a get_and_pin returns 0 with the pair of the key in the table, locked
\* for the caller, and the pair's value; if it found no pair it has called
\* fetch_callback once, the value is the file's and the miss counter went up
\* by one; if it found the pair it has not called fetch_callback and the miss
\* counter is as it was.
C7_FetchOnMiss ==
    \A c \in Clients :
        (th[c].op = "get_and_pin" /\ th[c].pc = "done") =>
            LET p == th[c].pin
            IN  /\ th[c].ret = 0
                /\ p # NoPair /\ p \in InTable(pairs)
                /\ P(p).key = th[c].k
                /\ nb_mutex_writers(P(p).vw) = 1
                /\ th[c].val = P(p).val
                /\ IF th[c].missed
                   THEN /\ th[c].nf = 1 /\ th[c].dmiss = 1
                        /\ P(p).nfetch = 1
                        /\ th[c].val = disk[th[c].k]
                   ELSE th[c].nf = 0 /\ th[c].dmiss = 0

\* one get_and_pin has missed and fetched a value that an eviction had
\* written to the file
C7_Witness ==
    \E c \in Clients :
        /\ th[c].op = "get_and_pin" /\ th[c].pc = "done"
        /\ th[c].missed /\ th[c].nf = 1
        /\ th[c].val \in Values
        /\ cachetable_miss = 1

\* the threads that are fetching the value of p
Fetchers(p) ==
    {c \in Clients : th[c].pc \in {"gp_fetch", "nb_fetch"} /\ th[c].p = p}
        \cup (IF P(p).job = "reader" THEN {"worker"} ELSE {})

\* C8: the table never holds two pairs for one key; a pair a put inserted is
\* never fetched, any other pair is fetched once, by one thread, which is
\* at work until the fetch is done; a call that found the pair another call
\* inserted has not fetched.
C8_OneInsertOneFetch ==
    /\ \A p, q \in InTable(pairs) : P(p).key = P(q).key => p = q
    /\ \A p \in InTable(pairs) :
          /\ P(p).nfetch <= 1
          /\ P(p).byput => (P(p).nfetch = 0 /\ Fetchers(p) = {})
          /\ Cardinality(Fetchers(p)) = IF ~P(p).byput /\ P(p).nfetch = 0 THEN 1 ELSE 0
    /\ \A c \in Clients :
          /\ th[c].nf <= 1
          /\ (th[c].pc = "done" /\ ~th[c].missed) => th[c].nf = 0

\* two clients have missed the same key and both are about to look again
\* under the write list lock
C8_Witness ==
    \E c, d \in Clients :
        /\ c # d
        /\ th[c].pc \in {"gp_wl", "nb_wl", "pf_wl"}
        /\ th[d].pc \in {"gp_wl", "nb_wl", "pf_wl"}
        /\ th[c].k = th[d].k
        /\ find_pair(pairs, th[c].k) = NoPair

\* C9: a put that finds its key in the table returns -1 and changes nothing:
\* not the pairs (values, dirty bits, attributes, locks), not the lists, not
\* the evictor's sizes, not the file; the caller has no pin.  A put that does
\* not find its key returns 0.
C9_PutExisting ==
    [][\A c \in Clients :
          (th[c].pc = "put_wl" /\ th'[c].pc = "done") =>
              IF find_pair(pairs, th[c].k) # NoPair
              THEN /\ th'[c].ret = -1
                   /\ th'[c].pin = NoPair
                   /\ UNCHANGED <<pairs, clock, clock_head, cleaner_head, pending_list,
                                  next_pair, ev, sleepers, disk, cachetable_miss>>
              ELSE th'[c].ret = 0 /\ th'[c].pin # NoPair]_vars

\* a put has returned -1 for a key whose pair another client holds pinned
C9_Witness ==
    \E c \in Clients :
        /\ th[c].op = "put" /\ th[c].pc = "done" /\ th[c].ret = -1
        /\ th[c].pin = NoPair
        /\ \E d \in Clients : d # c /\ th[d].pin = find_pair(pairs, th[c].k)

\* ------------------------------------------------------------------------
\* get_and_pin_nonblocking
\* ------------------------------------------------------------------------
\* C10: a get_and_pin_nonblocking returns 0 or TOKUDB_TRY_AGAIN; when it
\* returns TOKUDB_TRY_AGAIN it has run the unlockers once and the caller holds
\* no pin and no value lock; when it returns 0 it has not run the unlockers
\* and the caller holds the pair of the key, locked.
C10_UnlockersOnce ==
    \A c \in Clients :
        (th[c].op = "get_and_pin_nonblocking" /\ th[c].pc = "done") =>
            /\ th[c].ret \in {0, TOKUDB_TRY_AGAIN}
            /\ th[c].ret = TOKUDB_TRY_AGAIN =>
                  /\ th[c].unl = 1
                  /\ th[c].pin = NoPair
                  /\ \A p \in PairIds : ~ClientHolds(c, p)
            /\ th[c].ret = 0 =>
                  /\ th[c].unl = 0
                  /\ th[c].pin # NoPair
                  /\ P(th[c].pin).key = th[c].k
                  /\ nb_mutex_writers(P(th[c].pin).vw) = 1

\* a get_and_pin_nonblocking, the only call but a put so far, has returned
\* TOKUDB_TRY_AGAIN after it wrote out for the checkpoint a pending pair that
\* the checkpointer has not come to yet
C10_Witness ==
    \E c \in Clients :
        /\ th[c].op = "get_and_pin_nonblocking" /\ th[c].pc = "done"
        /\ th[c].ret = TOKUDB_TRY_AGAIN
        /\ th[c].unl = 1
        /\ th[c].p # NoPair
        /\ th[c].p \in hist.dirty0 \ hist.unwritten
        /\ ~has_clone_callback(P(th[c].p))
        /\ th[c].p \in pending_list
        /\ \A d \in Clients \ {c} : th[d].op = "none"

\* ---------------------------------------------------------------------------
\* C11  get_and_pin_nonblocking on an absent key
\* ---------------------------------------------------------------------------

NBMissed(c) == th[c].op = "get_and_pin_nonblocking" /\ th[c].missed

\* C11 as stated: a get_and_pin_nonblocking that inserted the pair of an
\* absent key leaves the fetch to a background reader: the calling thread
\* never calls fetch_callback itself, and it returns TOKUDB_TRY_AGAIN with the
\* unlockers run once.
C11_FetchOnReader ==
    \A c \in Clients :
        NBMissed(c) =>
            /\ th[c].nf = 0
            /\ th[c].pc = "done" => (th[c].ret = TOKUDB_TRY_AGAIN /\ th[c].unl = 1)

\* C11: a get_and_pin_nonblocking on an absent key inserts a pair with the
\* value lock held by the caller and runs the unlockers once; the caller then
\* calls fetch_callback itself, on its own thread (no reader job is given the
\* pair), releases the value lock, and returns TOKUDB_TRY_AGAIN with no pin,
\* with one counted miss and with the unlockers run exactly once.
C11_FetchOnCaller ==
    \A c \in Clients :
        NBMissed(c) =>
            /\ th[c].unl = 1
            /\ th[c].pc \in {"nb_fetch", "nb_sleep", "done"}
            /\ th[c].pc = "nb_fetch" =>
                  /\ P(th[c].p).st = "live" /\ P(th[c].p).key = th[c].k
                  /\ P(th[c].p).by = c
                  /\ nb_mutex_writers(P(th[c].p).vw) = 1
                  /\ P(th[c].p).job = "none"
                  /\ P(th[c].p).nfetch = 0
                  /\ th[c].nf = 0
            /\ th[c].pc \in {"nb_sleep", "done"} =>
                  /\ th[c].nf = 1 /\ th[c].dmiss = 1
                  /\ ~ClientHolds(c, th[c].p)
                  /\ P(th[c].p).st = "live" => (P(th[c].p).nfetch = 1 /\ P(th[c].p).job # "reader")
            /\ th[c].pc = "done" =>
                  /\ th[c].ret = TOKUDB_TRY_AGAIN
                  /\ th[c].pin = NoPair

\* a get_and_pin_nonblocking has returned TOKUDB_TRY_AGAIN after it inserted
\* the pair of an absent key and read it from the file on its own thread; the
\* pair is in the table, unlocked, with the file's value
C11_Witness ==
    \E c \in Clients :
        /\ NBMissed(c) /\ th[c].pc = "done"
        /\ th[c].ret = TOKUDB_TRY_AGAIN /\ th[c].unl = 1 /\ th[c].nf = 1
        /\ P(th[c].p).st = "live" /\ P(th[c].p).key = th[c].k
        /\ P(th[c].p).val = disk[th[c].k]
        /\ nb_mutex_users(P(th[c].p).vw, P(th[c].p).vq) = 0

\* ---------------------------------------------------------------------------
\* C12  maybe_get_and_pin and maybe_get_and_pin_clean
\* ---------------------------------------------------------------------------

MaybeOps == {"maybe_get_and_pin", "maybe_get_and_pin_clean"}

\* a call that is past read_list_lock can always finish at once
MaybeNeverWaits ==
    \A c \in Clients : th[c].pc = "mg_begin" => ENABLED MaybeGetAndPin(c)

\* what a returned call has left behind
MaybeReturned ==
    \A c \in Clients :
        (th[c].op \in MaybeOps /\ th[c].pc = "done") =>
            /\ th[c].ret \in {0, -1}
            /\ th[c].ret = 0 =>
                  /\ th[c].pin # NoPair
                  /\ P(th[c].pin).st = "live" /\ P(th[c].pin).key = th[c].k
                  /\ nb_mutex_writers(P(th[c].pin).vw) = 1
                  /\ th[c].op = "maybe_get_and_pin" => P(th[c].pin).dirty
            /\ th[c].ret = -1 =>
                  /\ th[c].pin = NoPair
                  /\ \A p \in PairIds : ~ClientHolds(c, p)

\* the step that decides
MaybeStep ==
    \A c \in Clients :
        (th[c].pc = "mg_begin" /\ th'[c].pc # "mg_begin") =>
            LET p == find_pair(pairs, th[c].k)
            IN  /\ th'[c].pc = "done"
                /\ IF th'[c].ret = 0
                   THEN /\ p # NoPair
                        /\ nb_mutex_users(pairs[p].vw, pairs[p].vq) = 0
                        /\ th[c].op = "maybe_get_and_pin" => pairs[p].dirty
                        /\ ~pairs[p].pend
                        /\ th'[c].pin = p
                        /\ th'[c].val = pairs[p].val
                        /\ pairs' = [pairs EXCEPT ![p].vw = 1]
                   ELSE /\ th'[c].ret = -1
                        /\ th'[c].pin = NoPair
                        /\ pairs' = pairs
                /\ UNCHANGED <<clock, clock_head, cleaner_head, pending_list, next_pair, ev,
                               sleepers, cl, cp, disk, bjm, cachetable_miss, hist>>

\* C12: maybe_get_and_pin returns 0 only for a pair that is in the table, has
\* no user of its value lock, is dirty and is not checkpoint_pending
\* (maybe_get_and_pin_clean: the same without the dirty test); on 0 the caller
\* holds the value lock and nothing else of the pair has changed, on -1 no
\* pair has changed (pending and dirty bits included) and the caller holds
\* nothing; neither call ever waits for a value lock.
C12_MaybePin == [](MaybeNeverWaits /\ MaybeReturned) /\ [][MaybeStep]_vars

\* while a checkpoint is in progress a client holds a dirty pair that it got
\* from maybe_get_and_pin: the pair was put after begin_checkpoint and is not
\* checkpoint_pending
C12_Witness ==
    \E c \in Clients :
        /\ th[c].op = "maybe_get_and_pin" /\ th[c].pc = "done" /\ th[c].ret = 0
        /\ th[c].pin # NoPair /\ P(th[c].pin).dirty /\ ~P(th[c].pin).pend
        /\ nb_mutex_writers(P(th[c].pin).vw) = 1
        /\ hist.active /\ th[c].pin \notin hist.marked

\* ---------------------------------------------------------------------------
\* C13  the eviction thread brings the table back under its low watermark
\* ---------------------------------------------------------------------------

\* no client is inside a call or holds a pin
Quiet == \A c \in Clients : AtRest(c) /\ th[c].pin = NoPair

\* every call made so far has inserted a pair: no pair was pinned again after
\* its insertion, and the pairs are numbered in the order of the clock
InsertsOnly == nops - (MaxOps - ClockCalls) = next_pair - 1

\* the pairs with keys 1, 2, 3 were put in this order, and nothing else happened
ThreePairsInOrder ==
    /\ InsertsOnly
    /\ next_pair = 4
    /\ \A p \in 1 .. 3 : P(p).key = p /\ (P(p).st = "live" => P(p).byput)

\* the eviction has chosen the pair: it is being written and removed by
\* cachetable_evicter or by the eviction thread, or it is gone
ChosenForEviction(p) ==
    \/ P(p).st = "freed"
    \/ P(p).job \in {"evicter", "evicter_wl"}
    \/ ev.pc = "ev_wl" /\ ev.p = p

\* C13 as stated, second half: of three unpinned pairs put in the order 1, 2, 3
\* into a table with room for two, key 1 is the first to be removed (the
\* counter of the third pair at 0 tells that the eviction thread never found
\* that pair pinned).
C13_Key1RemovedFirst ==
    (ThreePairsInOrder /\ Quiet /\ P(3).st = "live" /\ P(3).cnt = 0) =>
        (P(2).st = "freed" => P(1).st = "freed")

\* the pair that the eviction chooses first is the first of the clock
FirstChosenIsFirstInClock ==
    InsertsOnly => \A p \in PairIds \ {1} : ChosenForEviction(p) => ChosenForEviction(1)

\* C13: whenever size_current - size_evicting exceeds the low watermark while
\* no client is in a call or holds a pin, the eviction thread and its workers,
\* fairly scheduled, bring size_current down to the low watermark or below
\* (unless a client calls again first); and of pairs that were inserted one
\* after the other and not pinned again the one chosen for eviction first is
\* the first in clock order, whose counter is the first to reach 0.
C13_EvictionProgress ==
    /\ (Quiet /\ ev.size_current - ev.size_evicting > ev.low_size_watermark)
           ~> (ev.size_current <= ev.low_size_watermark \/ ~Quiet)
    /\ []FirstChosenIsFirstInClock

\* three pairs were put with keys 1, 2, 3, the client is at rest, key 1 has
\* been evicted and the table is back at its low watermark
C13_Witness ==
    /\ ThreePairsInOrder
    /\ Quiet
    /\ P(1).st = "freed" /\ P(2).st = "live" /\ P(3).st = "live"
    /\ ev.size_current = ev.low_size_watermark
    /\ ev.size_evicting = 0 /\ ev.pc = "idle"

\* ---------------------------------------------------------------------------
\* C14  no client sleeps forever in wait_for_cache_pressure_to_subside
\* ---------------------------------------------------------------------------

C15_WokenBelowHysteresis ==
    [][\A c \in Clients :
          (th[c].pc = "put_sleep" /\ c \in sleepers /\ c \notin sleepers') =>
              ev.size_current <= ev.high_size_hysteresis]_vars

\* run_eviction leaves its loop early: eviction is needed, but the clock is
\* empty or the head is the pair at which a round without any eviction began
ExitsEarly ==
    /\ ev.size_current - ev.size_evicting > ev.low_size_watermark
    /\ \/ clock_head = NoPair
       \/ ev.set_val /\ P(clock_head).key = ev.curr_key

\* C15: a client that sleeps in put because size_current was above the high
\* watermark does not go on to insert its pair before the eviction thread has
\* broadcast, and the eviction thread broadcasts only when size_current is at
\* or below high_size_hysteresis or when it gives up because the clock is
\* empty or every pair in it is in use; the client does not test the size
\* again after it is woken.
C15_WokenByBroadcast ==
    [][\A c \in Clients :
          /\ (th[c].pc = "put_sleep" /\ th'[c].pc # "put_sleep") =>
                (c \notin sleepers /\ th'[c].pc = "put_wl")
          /\ (th[c].pc = "put_sleep" /\ c \in sleepers /\ c \notin sleepers') =>
                /\ ev.pc \in {"idle", "run"}
                /\ ev.size_current <= ev.high_size_hysteresis \/ ExitsEarly
          /\ (th[c].pc = "put_wl" /\ th'[c].pc # "put_wl") =>
                (th'[c].pc = "done" /\ th'[c].ret \in {0, -1})]_vars

\* a put that slept has been woken, and is about to insert its pair, while
\* size_current is above high_size_hysteresis: the only pair is pinned by the
\* other client and the eviction thread has given up
C15_Witness ==
    \E c, d \in Clients :
        /\ th[c].pc = "put_sleep" /\ c \notin sleepers
        /\ ev.size_current > ev.high_size_hysteresis
        /\ ev.size_evicting = 0
        /\ th[d].pin # NoPair /\ InTable(pairs) = {th[d].pin}

\* ---------------------------------------------------------------------------
\* C16  what one run of the cleaner does
\* ---------------------------------------------------------------------------

\* C16 as stated: in a run of four iterations over pairs with the scores
\* 0, 5, 0, 10, 0, 3, 0, 0 the cleaner callback is invoked once, on the pair
\* with the score 10: it is invoked in the first iteration and in no other.
C16_CallbackOnce ==
    cl.pc = "cl_cb" => (cl.i = 1 /\ PressureSizes[cl.p] = 10)

\* some pair rates above 0
SomethingToClean == \E p \in DOMAIN pairs : cleaner_thread_rate_pair(P(p)) > 0

\* the pair the cleaner holds has the highest score of all, above 0; in the
\* first iteration of the first run it is the pair with the score 10
CleanerHasBest ==
    cl.pc \in {"cl_have", "cl_cb"} =>
        /\ cleaner_thread_rate_pair(P(cl.p)) > 0
        /\ \A q \in DOMAIN pairs :
               cleaner_thread_rate_pair(P(q)) <= cleaner_thread_rate_pair(P(cl.p))
        /\ nb_mutex_writers(P(cl.p).vw) = 1
        /\ cl.i \in 1 .. cl.iterations
        /\ (cl.runs = 1 /\ cl.i = 1) => PressureSizes[cl.p] = 10

\* every iteration that finds a pair with a score above 0 invokes the
\* callback, and a run ends early only when no pair has one
CleanerIterates ==
    /\ (cl.pc = "idle" /\ cl' # cl) =>
           IF SomethingToClean THEN cl'.pc = "cl_have" /\ cl'.i = cl.i + 1
           ELSE cl'.pc = "idle" /\ cl'.i = 0
    /\ cl.pc = "cl_have" => cl'.pc = "cl_cb" /\ cl'.p = cl.p
    /\ cl.pc = "cl_cb" =>
           /\ cl'.pc = "idle"
           /\ nb_mutex_users(pairs'[cl.p].vw, pairs'[cl.p].vq) = 0
           /\ cl'.i = IF cl.i = cl.iterations THEN 0 ELSE cl.i

\* C16: of unpinned pairs with the scores 0, 5, 0, 10, 0, 3, 0, 0 the first
\* iteration of a cleaner run picks the pair with the score 10 and invokes
\* the cleaner callback on it; each of the cleaner_iterations iterations of
\* the run picks the pair that then has the highest score and invokes the
\* callback on it, so that a run of four iterations invokes the callback once
\* per iteration until no pair has a score above 0.
C16_CallbackPerIteration == []CleanerHasBest /\ [][CleanerIterates]_vars

\* the fourth iteration of the run invokes the callback on the pair with the
\* score 10, which the three callbacks before have left as it was
C16_Witness ==
    /\ cl.pc = "cl_cb" /\ cl.runs = 1 /\ cl.i = 4
    /\ PressureSizes[cl.p] = 10
    /\ \A p \in DOMAIN pairs : cleaner_thread_rate_pair(P(p)) = PressureSizes[p]

\* ------------------------------------------------------------------------
\* C17  The evictor and flush_cachefile never free a pair whose latest dirty
\* content has not been written: in every step that takes a pair out of the
\* table the pair is clean and the file holds its value, unless the step is
\* the removal of unpin_and_remove by the client that called it.
\* ------------------------------------------------------------------------
RemovedByClient(p) ==
    \E c \in Clients : /\ th[c].op = "unpin_and_remove" /\ th[c].pc = "uar_wl"
                       /\ th[c].p = p /\ th'[c] # th[c]

LeavesTableWritten ==
    \A p \in PairIds :
        (pairs[p].st = "live" /\ pairs'[p].st # "live") =>
            \/ ~pairs[p].dirty /\ disk[pairs[p].key] = pairs[p].val
            \/ RemovedByClient(p)

C17_RemovedClean == [][LeavesTableWritten]_vars

\* the close of the file has written a dirty pair and is about to remove it,
\* and another pair whose content was written has been freed before
C17_Witness ==
    /\ bjm.closed
    /\ \E p \in bjm.list : /\ P(p).st = "live" /\ ~P(p).dirty /\ P(p).job = "none"
                           /\ P(p).val \in Values /\ disk[P(p).key] = P(p).val
    /\ \E q \in PairIds : P(q).st = "freed" /\ disk[P(q).key] \in Values

\* ------------------------------------------------------------------------
\* C18  No two cachefiles of the list share a file-id or a filenum; an open
\* of an fd whose file-id is listed returns the listed cachefile and adds no
\* entry; reserve_filenum returns a filenum that no listed file uses, the
\* first such filenum after its previous result counting modulo the width of
\* the counter.
\* ------------------------------------------------------------------------
FilesDistinct ==
    \A i, j \in DOMAIN cf_list.head :
        i # j => /\ cf_list.head[i].fileid # cf_list.head[j].fileid
                 /\ cf_list.head[i].filenum # cf_list.head[j].filenum

ReserveStep == Len(cf_list'.held) = Len(cf_list.held) + 1
OpenStep == Len(cf_list'.held) = Len(cf_list.held) - 1

ReserveUnused == ReserveStep => cf_list'.ret[1] \notin ListedFilenums(cf_list.head)

\* every filenum from the one after the previous result up to the new
\* result, counting modulo FilenumModulus, is used by a listed file
ReserveAdvances ==
    ReserveStep =>
        LET from == IF cf_list.ret = <<>> THEN 0 ELSE (cf_list.ret[1] + 1) % FilenumModulus
            d    == (cf_list'.ret[1] - from) % FilenumModulus
        IN  \A e \in 0 .. d - 1 :
                (from + e) % FilenumModulus \in ListedFilenums(cf_list.head)

ReserveIncreasing ==
    (ReserveStep /\ cf_list.ret # <<>>) => cf_list'.ret[1] > cf_list.ret[1]

OpenExisting ==
    (OpenStep /\ cf_list'.fd[1] \in ListedFileids(cf_list.head)) =>
        /\ cf_list'.head = cf_list.head
        /\ \E i \in DOMAIN cf_list.head : cf_list'.cf = <<cf_list.head[i]>>
        /\ cf_list'.cf[1].fileid = cf_list'.fd[1]

\* the statement of the claim about successive results
C18_IncreasingFilenums == [][ReserveIncreasing]_vars

C18_UniqueFiles ==
    []FilesDistinct /\ [][ReserveUnused /\ ReserveAdvances /\ OpenExisting]_vars

\* two files are open, the counter has wrapped and skipped the filenum of a
\* listed file, and the last open returned a listed cachefile for its fd
C18_Witness ==
    /\ ~cf_list.aborted
    /\ Len(cf_list.head) = MaxFiles
    /\ cf_list.ret # <<>> /\ cf_list.ret[1] - 1 \in ListedFilenums(cf_list.head)
    /\ \E i \in DOMAIN cf_list.head : cf_list.head[i].filenum > cf_list.ret[1]
    /\ cf_list.cf # <<>> /\ cf_list.cf[1] # cf_list.head[1]

\* ------------------------------------------------------------------------
\* C19  For a fraction in [0,1], reserve_memory returns the integer part of
\* fraction * (low_watermark - size_reserved) and adds it to size_reserved
\* and to size_current; size_reserved stays between the unreservable share
\* and low_watermark; release_reserved_memory(r) subtracts r from both, so
\* that both counters exceed their values without reservations by exactly
\* the amounts that are reserved and not released.
\* ------------------------------------------------------------------------
Reserving(c) == th[c].op # "reserve_memory" /\ th'[c].op = "reserve_memory"
Releasing(c) == th[c].op = "reserve_memory" /\ th'[c].op = "release_reserved_memory"

ReserveReturns ==
    \A c \in Clients :
        Reserving(c) =>
            LET reservable == ev.low_size_watermark - ev.size_reserved
                r          == th'[c].ret
            IN  /\ r * FractionDen <= th'[c].k * reservable
                /\ th'[c].k * reservable < (r + 1) * FractionDen
                /\ ev'.size_reserved = ev.size_reserved + r
                /\ ev'.size_current = ev.size_current + r

ReleaseRestores ==
    \A c \in Clients :
        Releasing(c) => /\ ev'.size_reserved = ev.size_reserved - th[c].ret
                        /\ ev'.size_current = ev.size_current - th[c].ret

\* the memory a client holds reserved
HeldBy(c) == IF th[c].op = "reserve_memory" THEN th[c].ret ELSE 0

\* the sum of the sizes of a set of pairs
RECURSIVE SizeOfPairs(_)
SizeOfPairs(S) ==
    IF S = {} THEN 0
    ELSE LET p == CHOOSE q \in S : TRUE IN P(p).asize + SizeOfPairs(S \ {p})

ReservedAccounted ==
    /\ unreservable_memory(ev.low_size_watermark) <= ev.size_reserved
    /\ ev.size_reserved <= ev.low_size_watermark
    /\ ev.size_reserved = unreservable_memory(ev.low_size_watermark) + HeldBy("c1") + HeldBy("c2")
    /\ ev.size_current = SizeOfPairs({p \in PairIds : P(p).st \in {"live", "removed"}})
                             + HeldBy("c1") + HeldBy("c2")

C19_ReserveRelease == []ReservedAccounted /\ [][ReserveReturns /\ ReleaseRestores]_vars

\* under a limit of 4, of which 3 can be reserved, one loader asked for half
\* and was given 1, the other asked for half of the remaining 2 and was
\* given 1, and the table holds one pair
C19_Witness ==
    /\ ev.low_size_watermark = 4
    /\ \A c \in Clients : /\ th[c].op = "reserve_memory" /\ th[c].pc = "done"
                          /\ th[c].k = 1 /\ th[c].ret = 1
    /\ ev.size_reserved = 3 /\ ev.size_current = 4

\* ------------------------------------------------------------------------
\* C20  A pair whose checkpoint_pending bit is set is linked in the pending
\* list, or is the pair that the checkpointer has just unlinked and is about
\* to write; between checkpoints no bit is set and the list is empty.  The
\* converse fails: a pin, the cleaner and cachetable_evicter clear the bit of
\* a pair and leave it linked.
\* ------------------------------------------------------------------------
\* the statement of the claim: the bit is set exactly when the pair is linked
C20_PendingIffLinked ==
    \A p \in InTable(pairs) : P(p).pend <=> p \in pending_list

C20_PendingIsLinked ==
    /\ \A p \in InTable(pairs) :
           P(p).pend => \/ p \in pending_list
                        \/ cp.p = p /\ cp.pc \in {"cp_vwait", "cp_have"}
    /\ pending_list \subseteq InTable(pairs)
    /\ cp.pc = "idle" => pending_list = {} /\ \A p \in InTable(pairs) : ~P(p).pend

\* during a checkpoint a client has pinned a pair and resolved its pending
\* bit; the pair is still linked in the pending list
C20_Witness ==
    /\ cp.pc = "cp_drain"
    /\ \E p \in pending_list, c \in Clients :
           th[c].pin = p /\ ~P(p).pend /\ th[c].op = "get_and_pin" /\ th[c].pc = "done"

\* ------------------------------------------------------------------------
\* C21  After any sequence of pair_list::put and pair_list::evict with the
\* rehashes they trigger, every pair in the table is exactly once on exactly
\* one hash chain, the one of bucket fullhash & (table_size - 1), and exactly
\* once on the clock list; the chains and the clock list hold no other pair,
\* and both hold n_in_table pairs.
\* ------------------------------------------------------------------------
Buckets == 0 .. pl.table_size - 1
ListLive == {p \in DOMAIN pairs : pairs[p].st = "live"}
TimesIn(s, p) == Cardinality({i \in DOMAIN s : s[i] = p})

C21_HashedAndOnClock ==
    /\ DOMAIN pl.table = Buckets
    /\ \A p \in ListLive :
           /\ \A h \in Buckets :
                  TimesIn(pl.table[h], p)
                      = IF h = pairs[p].fullhash % pl.table_size THEN 1 ELSE 0
           /\ TimesIn(clock, p) = 1
    /\ \A h \in Buckets : \A i \in DOMAIN pl.table[h] : pl.table[h][i] \in ListLive
    /\ \A i \in DOMAIN clock : clock[i] \in ListLive
    /\ Len(chained_pairs(pl.table, 0, pl.table_size)) = pl.n_in_table
    /\ Len(clock) = pl.n_in_table
    /\ clock_head = NoPair <=> clock = <<>>

\* the table has grown to twice its initial size, and two pairs that shared a
\* chain of the initial table are on a chain each
C21_Witness ==
    /\ pl.table_size = 2 * INITIAL_PAIR_LIST_SIZE
    /\ pl.n_in_table > INITIAL_PAIR_LIST_SIZE
    /\ \E p, q \in ListLive :
           /\ p # q
           /\ pairs[p].fullhash % INITIAL_PAIR_LIST_SIZE = pairs[q].fullhash % INITIAL_PAIR_LIST_SIZE
           /\ pairs[p].fullhash % pl.table_size # pairs[q].fullhash % pl.table_size
    /\ \E p \in DOMAIN pairs : pairs[p].st = "removed"

\* ------------------------------------------------------------------------
\* C22  When no operation is in flight, size_current equals the sum of
\* attr.size over the pairs in the table, plus the sum of their
\* cloned_value_size, plus the memory that loaders hold reserved, which is
\* size_reserved less the unreservable quarter of the size limit that
\* evictor::init puts in size_reserved and not in size_current.
\* ------------------------------------------------------------------------
RECURSIVE CloneSizeOfPairs(_)
CloneSizeOfPairs(S) ==
    IF S = {} THEN 0
    ELSE LET p == CHOOSE q \in S : TRUE IN P(p).csize + CloneSizeOfPairs(S \ {p})

\* no client is inside a call and the checkpointer is not at work on a pair
NoOperationInFlight ==
    /\ \A c \in Clients : AtRest(c)
    /\ cp.pc \in {"idle", "cp_drain", "cp_userdata"}

\* the statement of the claim
C22_SizeWithReserved ==
    NoOperationInFlight =>
        ev.size_current = SizeOfPairs(InTable(pairs)) + CloneSizeOfPairs(InTable(pairs))
                              + ev.size_reserved

C22_SizeWithReservations ==
    NoOperationInFlight =>
        ev.size_current = SizeOfPairs(InTable(pairs)) + CloneSizeOfPairs(InTable(pairs))
                              + ev.size_reserved - unreservable_memory(ev.low_size_watermark)

\* between two calls: a pair in the table, a clone that waits to be written,
\* and memory reserved by a loader
C22_Witness ==
    /\ NoOperationInFlight
    /\ \E p \in InTable(pairs) : P(p).csize > 0
    /\ ev.size_reserved > unreservable_memory(ev.low_size_watermark)
    /\ unreservable_memory(ev.low_size_watermark) > 0

\* ------------------------------------------------------------------------
\* C23  A pair that has a clone has its disk_nb_mutex held: the clone is made
\* by the thread that takes the free disk lock, it is cleared, with its size
\* taken off size_current, when the disk lock is released, and no pair is
\* written for eviction, removed from the table or freed while it has a
\* clone.
\* ------------------------------------------------------------------------
CloneHoldsDiskLock ==
    \A p \in PairIds :
        /\ P(p).clone # NoVal => P(p).st = "live" /\ P(p).dw = 1 /\ P(p).csize = P(p).asize
        /\ P(p).clone = NoVal => P(p).csize = 0

CloneSteps ==
    \A p \in PairIds :
        /\ (pairs[p].clone = NoVal /\ pairs'[p].clone # NoVal) =>
               /\ pairs[p].dw = 0
               /\ ev'.size_current = ev.size_current + pairs'[p].csize
        /\ (pairs[p].clone # NoVal /\ pairs'[p].clone = NoVal) =>
               /\ pairs'[p].st = "live" /\ pairs'[p].dw = 0
               /\ ev'.size_current = ev.size_current - pairs[p].csize
        /\ pairs[p].clone # NoVal =>
               /\ pairs'[p].st = "live"
               /\ pairs'[p].job = pairs[p].job
               /\ pairs'[p].clone \in {pairs[p].clone, NoVal}

C23_CloneUnderDiskLock == []CloneHoldsDiskLock /\ [][CloneSteps]_vars

\* a pair has a clone that is not written yet, and a cachetable_evicter job
\* for the pair waits for the disk lock
C23_Witness ==
    \E p \in PairIds :
        /\ P(p).clone # NoVal /\ P(p).dw = 1
        /\ th["c1"].pc = "uar_d" /\ th["c1"].p = p

\* ------------------------------------------------------------------------
\* C24  The checkpointer that has cloned a dirty pending pair no longer
\* holds the pair's value lock while the clone waits for its write, so a
\* client can pin the pair and change the live value meanwhile; the write of
\* the clone puts into the file the value the pair had when it was cloned,
\* leaves the live value and its dirty bit alone and drops the clone.
\* ------------------------------------------------------------------------
CloneWriterHasNoValueLock ==
    cp.pc = "cp_clone" =>
        /\ P(cp.p).clone # NoVal /\ nb_mutex_writers(P(cp.p).dw) = 1 /\ ~P(cp.p).pend
        /\ nb_mutex_writers(P(cp.p).vw) = 1 => ClientLocked(cp.p) \/ CleanerHolds(cp.p)

CloneIsWritten ==
    \A p \in PairIds :
        /\ (pairs[p].clone = NoVal /\ pairs'[p].clone # NoVal) =>
               /\ pairs'[p].clone = pairs[p].val
               /\ (cp.pc = "cp_have" /\ cp.p = p) =>
                      cp'.pc = "cp_clone" /\ nb_mutex_writers(pairs'[p].vw) = 0
        /\ (pairs[p].clone # NoVal /\ pairs'[p].clone # NoVal) =>
               pairs'[p].clone = pairs[p].clone
        /\ (pairs[p].clone # NoVal /\ pairs'[p].clone = NoVal) =>
               /\ disk'[pairs[p].key] = pairs[p].clone
               /\ pairs'[p].val = pairs[p].val
               /\ pairs'[p].dirty = pairs[p].dirty
               /\ pairs'[p].vw = pairs[p].vw

C24_CloneWrittenNotLive == []CloneWriterHasNoValueLock /\ [][CloneIsWritten]_vars

\* a client has pinned the pair whose clone waits for its write on the
\* checkpoint thread and has unpinned it dirty with another value
C24_Witness ==
    \E p \in PairIds :
        /\ cp.pc = "cp_clone" /\ cp.p = p
        /\ P(p).clone # NoVal /\ P(p).val # P(p).clone /\ P(p).dirty

\* ------------------------------------------------------------------------
\* C25  When begin_checkpoint starts, and in particular when it starts
\* after an end_checkpoint has completed, no pair in the table has its
\* checkpoint_pending bit set and the pending list is empty, so the
\* assertion of turn_on_pending_bits holds, whatever pins, evictions and
\* removals ran during the previous checkpoint.
\* ------------------------------------------------------------------------
NothingPending ==
    /\ pending_list = {}
    /\ \A p \in InTable(pairs) : ~P(p).pend

BeginsWithNothingPending ==
    (cp.pc = "idle" /\ cp'.pc # "idle") =>
        /\ NothingPending
        /\ pending_list' = InTable(pairs)
        /\ \A p \in InTable(pairs) : pairs'[p].pend

IdleNothingPending == cp.pc = "idle" => NothingPending

C25_NothingPendingAtBegin == []IdleNothingPending /\ [][BeginsWithNothingPending]_vars

\* a checkpoint has begun after the end of another, with a pair in the
\* table and a pair that has been freed
C25_Witness ==
    /\ cp.n = MaxCheckpoints + 1 /\ cp.pc = "cp_drain"
    /\ pending_list # {}
    /\ \E p \in PairIds : P(p).st = "freed"

\* ------------------------------------------------------------------------
\* C26  After end_checkpoint has returned, with or without an error of a
\* note_unpin_by_checkpoint callback, no cachefile has for_checkpoint set
\* and note_unpin_by_checkpoint has been invoked for every file that took
\* part in the checkpoint.
\* ------------------------------------------------------------------------
EndCheckpointReturned == cf_list.ck = "idle" /\ cf_list.r # <<>>

C26_AllFilesReleased ==
    EndCheckpointReturned =>
        /\ cf_list.for_checkpoint = {}
        /\ cf_list.unpinned = {cf_list.cfs[i] : i \in DOMAIN cf_list.cfs}

\* what the loop of remove_cachefiles gives: the claim's statement when no
\* callback fails, and otherwise the files after the failing one keep
\* for_checkpoint and are not notified
C26_ReleasedUpToError ==
    EndCheckpointReturned =>
        LET cfs == cf_list.cfs
        IN  \/ /\ cf_list.r = <<0>>
               /\ cf_list.for_checkpoint = {}
               /\ cf_list.unpinned = {cfs[i] : i \in DOMAIN cfs}
            \/ /\ cf_list.r = <<1>>
               /\ \E n \in DOMAIN cfs :
                      /\ cf_list.unpinned = {cfs[i] : i \in 1 .. n}
                      /\ cf_list.for_checkpoint = {cfs[i] : i \in n + 1 .. Len(cfs)}

\* a file is still marked for the checkpoint that has ended
C26_Witness ==
    /\ EndCheckpointReturned
    /\ cf_list.r = <<1>>
    /\ cf_list.for_checkpoint # {}

\* ------------------------------------------------------------------------
\* The locking of the cachetable.  Every function is the sequence of its
\* lock operations, in the order of its code, on one pair; the threads run
\* them one operation at a time.  The operations are
\*   rdlock/wrlock/rdunlock/wrunlock of a read/write lock (a reader waits
\*     while a writer holds or awaits the lock, as the locks prefer writers),
\*   pair_lock/pair_unlock of the pair's mutex,
\*   nb_mutex_lock/nb_mutex_unlock of value_nb_mutex or disk_nb_mutex (the
\*     lock waits on a condition variable of the pair's mutex, which it
\*     releases meanwhile),
\*   clear/set of the checkpoint_pending bit, insert/remove/free of the pair,
\*   enq of a kibbutz job, to which the nb_mutex the job will release passes,
\*   unless/skip for the branches and done for a return; a thread passes
\*     skip and done with the operation before them.
\* Conditions on data the locks do not decide (dirty, cloneable, the clock
\* count) are "maybe".
\* ------------------------------------------------------------------------
If(cond, a, b) == << <<"unless", cond, Len(a) + 1>> >> \o a \o << <<"skip", Len(b)>> >> \o b
When(cond, a) == << <<"unless", cond, Len(a)>> >> \o a

get_checkpoint_pending_unlocked == << <<"clear">> >>

\* the read of the pending bit into a local and its clear
get_checkpoint_pending_locks ==
    << <<"rdlock", "pending_cheap">>, <<"clear">>, <<"rdunlock", "pending_cheap">> >>

cachetable_write_locked_pair_locks ==
    << <<"pair_lock">>, <<"nb_mutex_lock", "disk">>, <<"pair_unlock">>,
       <<"pair_lock">>, <<"nb_mutex_unlock", "disk">>, <<"pair_unlock">> >>

write_locked_pair_for_checkpoint_locks ==
    When("local_pending_dirty",
         If("maybe",
            << <<"pair_lock">>, <<"nb_mutex_lock", "disk">>, <<"pair_unlock">>, <<"enq", "cw">> >>,
            cachetable_write_locked_pair_locks))

cachetable_fetch_pair_locks(keep_pair_locked) ==
    << <<"pair_lock">>, <<"nb_mutex_lock", "disk">>, <<"pair_unlock">>,
       <<"pair_lock">>, <<"nb_mutex_unlock", "disk">> >>
    \o (IF keep_pair_locked THEN << >> ELSE << <<"nb_mutex_unlock", "value">> >>)
    \o << <<"pair_unlock">> >>

try_pin_pair_keeps_list ==
    << <<"nb_mutex_lock", "value">>, <<"pair_unlock">> >>
    \o If("holds_list", << >>, << <<"rdlock", "list">> >>)
    \o get_checkpoint_pending_locks
    \o write_locked_pair_for_checkpoint_locks

\* try_pin_pair with may_modify_value, entered with the pair's mutex
try_pin_pair_locks ==
    When("holds_list", When("value_writers", << <<"rdunlock", "list">> >>))
    \o << <<"nb_mutex_lock", "value">>, <<"pair_unlock">> >>
    \o If("holds_list", << >>, << <<"rdlock", "list">> >>)
    \o get_checkpoint_pending_locks
    \o write_locked_pair_for_checkpoint_locks

\* toku_cachetable_get_and_pin: begin_batched_pin, the hit, the miss
get_and_pin_locks ==
    << <<"rdlock", "list">> >>
    \o If("found",
          << <<"pair_lock">> >> \o try_pin_pair_locks,
          << <<"rdunlock", "list">>, <<"wrlock", "list">> >>
          \o If("found",
                << <<"pair_lock">>, <<"wrunlock", "list">> >> \o try_pin_pair_locks,
                << <<"insert">>, <<"pair_lock">>, <<"nb_mutex_lock", "value">>,
                   <<"pair_unlock">>, <<"rdlock", "pending_cheap">>,
                   <<"rdunlock", "pending_cheap">>, <<"wrunlock", "list">> >>
                \o cachetable_fetch_pair_locks(TRUE)
                \o << <<"rdlock", "list">> >>))
    \o << <<"rdunlock", "list">>, <<"done">> >>

\* toku_cachetable_maybe_get_and_pin and _clean
maybe_get_and_pin_locks ==
    << <<"rdlock", "list">> >>
    \o If("found",
          << <<"pair_lock">>, <<"rdunlock", "list">> >>
          \o When("maybe_no_value_users",
                  << <<"nb_mutex_lock", "value">>, <<"rdlock", "pending_cheap">> >>
                  \o When("pending", << <<"nb_mutex_unlock", "value">> >>)
                  \o << <<"rdunlock", "pending_cheap">> >>)
          \o << <<"pair_unlock">> >>,
          << <<"rdunlock", "list">> >>)
    \o << <<"done">> >>

pin_and_release_pair_locks ==
    << <<"rdunlock", "list">>, <<"nb_mutex_lock", "value">> >>
    \o get_checkpoint_pending_locks
    \o << <<"pair_unlock">> >>
    \o write_locked_pair_for_checkpoint_locks
    \o << <<"pair_lock">>, <<"nb_mutex_unlock", "value">>, <<"pair_unlock">>,
          <<"rdlock", "list">> >>

\* toku_cachetable_get_and_pin_nonblocking with may_modify_value; a pair
\* found at the second look makes the call return instead of trying again
get_and_pin_nonblocking_locks ==
    << <<"rdlock", "list">> >>
    \o If("found",
          << <<"pair_lock">> >>
          \o If("value_writers",
                pin_and_release_pair_locks,
                << <<"nb_mutex_lock", "value">>, <<"pair_unlock">> >>
                \o get_checkpoint_pending_locks
                \o write_locked_pair_for_checkpoint_locks
                \o When("maybe", << <<"pair_lock">>, <<"nb_mutex_unlock", "value">>,
                                    <<"pair_unlock">> >>)),
          << <<"rdunlock", "list">>, <<"wrlock", "list">> >>
          \o If("found",
                << <<"wrunlock", "list">>, <<"rdlock", "list">> >>,
                << <<"insert">>, <<"pair_lock">>, <<"nb_mutex_lock", "value">>,
                   <<"pair_unlock">>, <<"wrunlock", "list">> >>
                \o cachetable_fetch_pair_locks(FALSE)
                \o << <<"rdlock", "list">> >>))
    \o << <<"rdunlock", "list">>, <<"done">> >>

unpin_locks ==
    << <<"pair_lock">>, <<"nb_mutex_unlock", "value">>, <<"pair_unlock">>, <<"done">> >>

unpin_and_remove_locks ==
    << <<"pair_lock">>, <<"nb_mutex_lock", "disk">>, <<"pair_unlock">>,
       <<"wrlock", "list">> >>
    \o get_checkpoint_pending_locks
    \o << <<"pair_lock">>, <<"nb_mutex_unlock", "value">>, <<"nb_mutex_unlock", "disk">>,
          <<"remove">>, <<"wrunlock", "list">> >>
    \o When("value_users", << <<"wait_for_users">> >>)
    \o << <<"pair_unlock">>, <<"free">>, <<"done">> >>

begin_checkpoint_documented ==
    << <<"rdlock", "cf_list">>, <<"rdunlock", "cf_list">>,
       <<"rdlock", "cf_list">>, <<"wrlock", "pending_exp">>, <<"rdlock", "list">>,
       <<"wrlock", "pending_cheap">>, <<"set">>, <<"wrunlock", "pending_cheap">>,
       <<"rdunlock", "list">>, <<"wrunlock", "pending_exp">>, <<"rdunlock", "cf_list">>,
       <<"done">> >>

begin_checkpoint_locks ==
    << <<"rdlock", "cf_list">>, <<"rdunlock", "cf_list">>,
       <<"wrlock", "pending_exp">>, <<"rdlock", "list">>, <<"rdlock", "cf_list">>,
       <<"wrlock", "pending_cheap">>, <<"set">>, <<"wrunlock", "pending_cheap">>,
       <<"rdunlock", "cf_list">>, <<"rdunlock", "list">>, <<"wrunlock", "pending_exp">>,
       <<"done">> >>

\* entered and left with the pair's mutex
write_pair_for_checkpoint_thread_locks ==
    << <<"nb_mutex_lock", "value">> >>
    \o If("pending_dirty",
          If("maybe",
             << <<"nb_mutex_lock", "disk">>, <<"clear">>, <<"nb_mutex_unlock", "value">>,
                <<"pair_unlock">>, <<"pair_lock">>, <<"nb_mutex_unlock", "disk">> >>,
             << <<"pair_unlock">> >> \o cachetable_write_locked_pair_locks
             \o << <<"pair_lock">>, <<"clear">>, <<"nb_mutex_unlock", "value">> >>),
          << <<"clear">>, <<"nb_mutex_unlock", "value">> >>)

\* end_checkpoint: fill_checkpoint_cfs, checkpoint_pending_pairs
end_checkpoint_locks ==
    << <<"rdlock", "cf_list">>, <<"rdunlock", "cf_list">>, <<"rdlock", "list">> >>
    \o When("linked",
            << <<"unlink">>, <<"pair_lock">>, <<"rdunlock", "list">> >>
            \o write_pair_for_checkpoint_thread_locks
            \o << <<"pair_unlock">>, <<"rdlock", "list">> >>)
    \o << <<"rdunlock", "list">>, <<"wait_for_jobs">>, <<"end_checkpoint">>, <<"done">> >>

cachetable_maybe_remove_and_free_pair_locks ==
    If("value_users", << <<"pair_unlock">> >>,
       << <<"remove">>, <<"pair_unlock">>, <<"free">> >>)

\* evict_pair, entered with the pair's mutex
evict_pair_locks(dirty) ==
    (IF dirty
     THEN When("maybe", << <<"pair_unlock">> >> \o cachetable_write_locked_pair_locks
                        \o << <<"pair_lock">> >>)
     ELSE << >>)
    \o << <<"nb_mutex_lock", "disk">>, <<"pair_unlock">>, <<"wrlock", "list">>,
          <<"pair_lock">>, <<"nb_mutex_unlock", "value">>, <<"nb_mutex_unlock", "disk">> >>
    \o cachetable_maybe_remove_and_free_pair_locks
    \o << <<"wrunlock", "list">> >>

try_evict_pair_locks ==
    << <<"nb_mutex_lock", "value">> >>
    \o If("maybe", evict_pair_locks(FALSE), << <<"pair_unlock">>, <<"enq", "job">> >>)

\* one pass of run_eviction over the pair: run_eviction_on_pair with a cheap
\* partial eviction or try_evict_pair
run_eviction_locks ==
    << <<"rdlock", "list">> >>
    \o When("found",
            << <<"pair_lock">> >>
            \o If("users",
                  << <<"pair_unlock">> >>,
                  << <<"rdunlock", "list">> >>
                  \o If("maybe",
                        << <<"nb_mutex_lock", "value">>, <<"pair_unlock">>, <<"pair_lock">>,
                           <<"nb_mutex_unlock", "value">>, <<"pair_unlock">> >>,
                        try_evict_pair_locks)
                  \o << <<"rdlock", "list">> >>))
    \o << <<"rdunlock", "list">>, <<"done">> >>

cachetable_evicter_locks ==
    << <<"rdlock", "pending_exp">>, <<"clear">>, <<"pair_lock">> >>
    \o evict_pair_locks(TRUE)
    \o << <<"rdunlock", "pending_exp">>, <<"done">> >>

\* one iteration of run_cleaner; the cleaner callback unpins the pair
run_cleaner_locks ==
    << <<"rdlock", "list">> >>
    \o If("found",
          << <<"pair_lock">> >>
          \o If("maybe_no_value_users",
                << <<"rdunlock", "list">>, <<"nb_mutex_lock", "value">>, <<"pair_unlock">> >>
                \o get_checkpoint_pending_locks
                \o write_locked_pair_for_checkpoint_locks
                \o << <<"pair_lock">>, <<"nb_mutex_unlock", "value">>, <<"pair_unlock">> >>,
                << <<"pair_unlock">>, <<"rdunlock", "list">> >>),
          << <<"rdunlock", "list">> >>)
    \o << <<"done">> >>

checkpoint_cloned_pair_locks ==
    << <<"pair_lock">>, <<"nb_mutex_unlock", "disk">>, <<"pair_unlock">>, <<"done">> >>

LockOps ==
    [get_and_pin |-> get_and_pin_locks,
     maybe_get_and_pin |-> maybe_get_and_pin_locks,
     get_and_pin_nonblocking |-> get_and_pin_nonblocking_locks,
     unpin |-> unpin_locks,
     unpin_and_remove |-> unpin_and_remove_locks,
     begin_checkpoint |-> begin_checkpoint_locks,
     end_checkpoint |-> end_checkpoint_locks,
     run_eviction |-> run_eviction_locks,
     cachetable_evicter |-> cachetable_evicter_locks,
     run_cleaner |-> run_cleaner_locks,
     checkpoint_cloned_pair |-> checkpoint_cloned_pair_locks]

\* where a thread that has come to position pc of a function does its next
\* operation: past the branches already decided, 0 after the return
RECURSIVE Position(_, _)
Position(op, pc) ==
    LET i == LockOps[op][pc]
    IN  IF i[1] = "skip" THEN Position(op, pc + i[2] + 1)
        ELSE IF i[1] = "done" THEN 0
        ELSE pc

\* the operation a thread is at
Ins(t) == LockOps[lk.op[t]][lk.pc[t]]

\* nb_mutex_users: the holder and the threads blocked in nb_mutex_lock
NbWaiters(nb) ==
    {u \in lk.waiting : Ins(u)[1] = "nb_mutex_lock" /\ Ins(u)[2] = nb}
NbUsers(nb) ==
    ((IF nb = "value" THEN {lk.value} ELSE {lk.disk}) \ {NoThread}) \cup NbWaiters(nb)

\* the writers that hold or await a read/write lock
Writers(l) ==
    ({lk.wr[l]} \ {NoThread})
    \cup {u \in LockThreads : lk.pc[u] # 0 /\ Ins(u)[1] = "wrlock" /\ Ins(u)[2] = l}

\* the outcomes a condition can have for thread t
Outcomes(t, cond) ==
    CASE cond = "found" -> {lk.found}
      [] cond = "linked" -> {lk.linked}
      [] cond = "pending" -> {lk.pending}
      [] cond = "value_writers" -> {lk.value # NoThread}
      [] cond = "value_users" -> {NbUsers("value") # {}}
      [] cond = "users" -> {NbUsers("value") # {} \/ NbUsers("disk") # {}}
      [] cond = "holds_list" -> {t \in lk.rd["list"]}
      [] cond = "maybe" -> BOOLEAN
      [] cond = "maybe_no_value_users" -> IF NbUsers("value") # {} THEN {FALSE} ELSE BOOLEAN
      [] cond = "pending_dirty" -> IF lk.pending THEN BOOLEAN ELSE {FALSE}
      [] cond = "local_pending_dirty" -> IF lk.loc[t] THEN BOOLEAN ELSE {FALSE}

Goes(t, l) ==
    LET pc == Position(l.op[t], l.pc[t] + 1)
    IN  [l EXCEPT !.pc[t] = pc, !.loc[t] = IF pc = 0 THEN FALSE ELSE @]

\* the lock state after thread t has done the operation it is at; the
\* conjuncts before lk' are what the operation waits for
LockStep(t) ==
    LET i == Ins(t)
        k == i[1]
    IN  /\ lk.pc[t] # 0
        /\ \/ /\ k = "rdlock"
              /\ lk.wr[i[2]] = NoThread
              /\ lk' = Goes(t, [lk EXCEPT !.rd[i[2]] = @ \cup {t}])
           \/ /\ k = "wrlock"
              /\ lk.wr[i[2]] = NoThread /\ lk.rd[i[2]] = {}
              /\ lk' = Goes(t, [lk EXCEPT !.wr[i[2]] = t])
           \/ /\ k = "rdunlock"
              /\ lk' = Goes(t, [lk EXCEPT !.rd[i[2]] = @ \ {t}])
           \/ /\ k = "wrunlock"
              /\ lk' = Goes(t, [lk EXCEPT !.wr[i[2]] = NoThread])
           \/ /\ k = "pair_lock"
              /\ lk.mutex = NoThread
              /\ lk' = Goes(t, [lk EXCEPT !.mutex = t, !.uaf = @ \/ ~lk.alloc])
           \/ /\ k = "pair_unlock"
              /\ lk' = Goes(t, [lk EXCEPT !.mutex = NoThread])
           \/ /\ k = "nb_mutex_lock"
              /\ t \notin lk.waiting
              /\ lk' = IF lk[i[2]] = NoThread
                       THEN Goes(t, [lk EXCEPT ![i[2]] = t])
                       ELSE [lk EXCEPT !.mutex = NoThread, !.waiting = @ \cup {t}]
           \/ /\ k = "nb_mutex_lock"
              /\ t \in lk.waiting
              /\ lk[i[2]] = NoThread /\ lk.mutex = NoThread
              /\ lk' = Goes(t, [lk EXCEPT ![i[2]] = t, !.mutex = t, !.waiting = @ \ {t}])
           \/ /\ k = "nb_mutex_unlock"
              /\ lk' = Goes(t, [lk EXCEPT ![i[2]] = NoThread])
           \/ /\ k = "wait_for_users"
              /\ t \notin lk.waiting
              /\ lk' = IF NbUsers("value") = {}
                       THEN Goes(t, lk)
                       ELSE [lk EXCEPT !.mutex = NoThread, !.waiting = @ \cup {t}]
           \/ /\ k = "wait_for_users"
              /\ t \in lk.waiting
              /\ NbUsers("value") = {} /\ lk.mutex = NoThread
              /\ lk' = Goes(t, [lk EXCEPT !.mutex = t, !.waiting = @ \ {t}])
           \/ /\ k = "clear"
              /\ lk' = Goes(t, [lk EXCEPT !.loc[t] = lk.pending, !.pending = FALSE])
           \/ /\ k = "set"
              /\ lk' = Goes(t, [lk EXCEPT !.pending = lk.found, !.linked = lk.found,
                                          !.ckpt = TRUE])
           \/ /\ k = "unlink"
              /\ lk' = Goes(t, [lk EXCEPT !.linked = FALSE])
           \/ /\ k = "insert"
              /\ ~lk.alloc
              /\ lk' = Goes(t, [lk EXCEPT !.found = TRUE, !.alloc = TRUE, !.pending = FALSE])
           \/ /\ k = "remove"
              /\ lk' = Goes(t, [lk EXCEPT !.found = FALSE, !.linked = FALSE])
           \/ /\ k = "free"
              /\ lk' = Goes(t, [lk EXCEPT !.alloc = FALSE,
                                          !.uaf = @ \/ NbUsers("value") # {}
                                                    \/ NbUsers("disk") # {}
                                                    \/ lk.mutex # NoThread])
           \/ /\ k = "enq"
              /\ lk' = Goes(t, [lk EXCEPT !.queued = @ \cup {i[2]},
                                          !.value = IF i[2] = "job" THEN "job" ELSE @,
                                          !.disk = IF i[2] = "cw" THEN "cw" ELSE @])
           \/ /\ k = "wait_for_jobs"
              /\ "cw" \notin lk.queued /\ lk.pc["cw"] = 0
              /\ lk' = Goes(t, lk)
           \/ /\ k = "end_checkpoint"
              /\ lk' = Goes(t, [lk EXCEPT !.ckpt = FALSE])
           \/ /\ k = "unless"
              /\ \E b \in Outcomes(t, i[2]) :
                     lk' = IF b THEN Goes(t, lk)
                           ELSE Goes(t, [lk EXCEPT !.pc[t] = @ + i[3]])
        /\ UNCHANGED TableVarsNoLocks

\* some other client is inside a call of function op
OtherClientIn(t, op) ==
    \E u \in {"c1", "c2"} \ {t} : lk.pc[u] # 0 /\ lk.op[u] = op

\* the calls a thread may make: a client that holds the pair pinned unpins
\* or removes it, one that does not pins it, and no client pins with
\* get_and_pin a pair that another removes; the checkpointer begins and
\* ends checkpoints in turn; a worker runs the job enqueued for it
LockCalls(t) ==
    CASE t \in {"c1", "c2"} ->
             IF lk.value = t
             THEN {"unpin"} \cup (IF OtherClientIn(t, "get_and_pin") THEN {}
                                  ELSE {"unpin_and_remove"})
             ELSE {"maybe_get_and_pin", "get_and_pin_nonblocking"}
                  \cup (IF OtherClientIn(t, "unpin_and_remove") THEN {}
                        ELSE {"get_and_pin"})
      [] t = "ev" -> {"run_eviction"}
      [] t = "cl" -> {"run_cleaner"}
      [] t = "cp" -> IF lk.ckpt THEN {"end_checkpoint"} ELSE {"begin_checkpoint"}
      [] t = "job" -> IF "job" \in lk.queued THEN {"cachetable_evicter"} ELSE {}
      [] t = "cw" -> IF "cw" \in lk.queued THEN {"checkpoint_cloned_pair"} ELSE {}

LockCall(t) ==
    /\ lk.pc[t] = 0
    /\ t \in lk.cast
    /\ \E op \in LockCalls(t) :
           lk' = [lk EXCEPT !.pc[t] = 1, !.op[t] = op, !.queued = @ \ {t}]
    /\ UNCHANGED TableVarsNoLocks

LockNext == \E t \in LockThreads : LockCall(t) \/ LockStep(t)

\* the threads that run together: a client, the workers, and MaxCast of the
\* other threads
MaxCast == 2
LockCasts ==
    {c \cup {"c1", "job", "cw"} : c \in {s \in SUBSET {"c2", "ev", "cl", "cp"} :
                                           Cardinality(s) = MaxCast}}

InitLocks ==
    /\ CreatedPairs(RoomyLimit)
    /\ nops = 0
    /\ \E c \in LockCasts : lk = [lock_init EXCEPT !.cast = c]

SpecLocks == InitLocks /\ [][LockNext]_vars

\* ------------------------------------------------------------------------
\* C27
\* ------------------------------------------------------------------------
\* thread t is about to do operation k
At(t, k) == lk.pc[t] # 0 /\ Ins(t)[1] = k

\* the locks thread t holds
Held(t) ==
    {l \in RWLocks : t \in lk.rd[l] \/ lk.wr[l] = t}
    \cup {l \in {"mutex", "value", "disk"} : lk[l] = t}

Acquiring(t) ==
    IF lk.pc[t] = 0 THEN {}
    ELSE LET i == Ins(t)
         IN  CASE i[1] \in {"rdlock", "wrlock", "nb_mutex_lock"} -> {i[2]}
               [] i[1] = "pair_lock" -> {"mutex"}
               [] OTHER -> {}

\* some thread acquires lock a while it holds lock h
AcquiresHolding(a, h) ==
    \E t \in LockThreads : a \in Acquiring(t) /\ h \in Held(t)

\* the place of each lock in the documented order
DocumentedRank(l) ==
    CASE l = "cf_list" -> 1
      [] l = "pending_exp" -> 2
      [] l = "list" -> 3
      [] l = "pending_cheap" -> 4
      [] l = "mutex" -> 5
      [] l \in {"value", "disk"} -> 6

\* C28: no thread acquires a lock while it holds one that comes later in
\* the documented order: cachefile-list lock, pending_lock_expensive,
\* list_lock, pending_lock_cheap, pair mutex, value/disk nb_mutex
C28_DocumentedOrder ==
    \A t \in LockThreads : \A a \in Acquiring(t) : \A h \in Held(t) :
        DocumentedRank(h) <= DocumentedRank(a)

\* the order the code follows for the locks a thread blocks on
CodeRank(l) ==
    CASE l = "pending_exp" -> 1
      [] l = "list" -> 2
      [] l = "cf_list" -> 3
      [] l = "mutex" -> 4
      [] l = "pending_cheap" -> 5

\* C28 as amended: no thread acquires one of pending_lock_expensive,
\* list_lock, cachefile-list lock, pair mutex, pending_lock_cheap while it
\* holds one that comes later in this order; an nb_mutex is acquired with
\* the pair's mutex held (released while the thread waits for the nb_mutex),
\* and the value_nb_mutex never by a thread that holds the disk_nb_mutex
C28_AcquiredInOrder ==
    \A t \in LockThreads : \A a \in Acquiring(t) :
        IF a \in {"value", "disk"}
        THEN /\ "mutex" \in Held(t) \/ t \in lk.waiting
             /\ a = "value" => "disk" \notin Held(t)
        ELSE \A h \in Held(t) \ {"value", "disk"} : CodeRank(h) <= CodeRank(a)

\* a client in maybe_get_and_pin takes pending_cheap with the pair's mutex
\* and value_nb_mutex, while begin_checkpoint, with pending_expensive, the
\* list lock and the cachefile-list lock, is about to take it as well
C28_Witness ==
    /\ \E t \in {"c1", "c2"} :
           /\ lk.op[t] = "maybe_get_and_pin"
           /\ "pending_cheap" \in Acquiring(t)
           /\ {"mutex", "value"} \subseteq Held(t)
    /\ "pending_cheap" \in Acquiring("cp")
    /\ Held("cp") = {"pending_exp", "list", "cf_list"}

\* ------------------------------------------------------------------------
\* C29
\* ------------------------------------------------------------------------
\* the threads that must act before thread t can do the operation it is at:
\* the holders of the lock it acquires, for a reader also the writers that
\* await the lock, for a thread waiting on an nb_mutex also the holder of
\* the pair's mutex it has to take back
WaitsFor(t) ==
    IF lk.pc[t] = 0 THEN {}
    ELSE LET i == Ins(t)
             k == i[1]
         IN  CASE k = "rdlock" ->
                      ({lk.wr[i[2]]} \ {NoThread})
                      \cup {w \in LockThreads \ {t} : At(w, "wrlock") /\ Ins(w)[2] = i[2]}
               [] k = "wrlock" -> ({lk.wr[i[2]]} \ {NoThread}) \cup lk.rd[i[2]]
               [] k = "pair_lock" -> {lk.mutex} \ {NoThread}
               [] k = "nb_mutex_lock" /\ t \in lk.waiting ->
                      {lk[i[2]], lk.mutex} \ {NoThread}
               [] k = "wait_for_users" /\ t \in lk.waiting ->
                      (NbUsers("value") \cup {lk.mutex}) \ {NoThread}
               [] k = "wait_for_jobs" ->
                      IF "cw" \in lk.queued \/ lk.pc["cw"] # 0 THEN {"cw"} ELSE {}
               [] OTHER -> {}

\* the threads that can act, now or after those they wait for have acted
RECURSIVE Movers(_)
Movers(S) ==
    LET more == S \cup {t \in LockThreads : WaitsFor(t) \subseteq S}
    IN  IF more = S THEN S ELSE Movers(more)

\* every thread can act in the end: no threads wait for each other in a cycle
NoWaitCycle == Movers({}) = LockThreads

\* C29: no set of threads wait for each other in a cycle over the list lock,
\* the pending locks, the pair's mutex and its nb_mutexes; no thread waits
\* for a contended value_nb_mutex while it holds the list lock, and the
\* evictor and its worker request the list write lock only while they hold
\* no pair mutex
C29_NoWaitCycle ==
    /\ NoWaitCycle
    /\ \A t \in LockThreads :
           /\ At(t, "nb_mutex_lock") /\ Ins(t)[2] = "value" /\ lk.value # NoThread
                  => "list" \notin Held(t)
           /\ t \in {"ev", "job"} /\ At(t, "wrlock") /\ Ins(t)[2] = "list"
                  => "mutex" \notin Held(t)

\* a client waits for the value_nb_mutex the evictor's worker holds, having
\* released the list lock, while the worker waits for the list write lock
\* that a third thread holds in read mode
C29_Witness ==
    /\ "c1" \in lk.waiting
    /\ WaitsFor("c1") = {"job"}
    /\ At("job", "wrlock")
    /\ WaitsFor("job") # {}
    /\ "c1" \notin WaitsFor("job")

\* ------------------------------------------------------------------------
\* C30
\* ------------------------------------------------------------------------
\* SpecEvCkpt with the end of an unpin_and_remove that had to wait for the
\* threads blocked on the value lock
NextFree == NextEvCkpt \/ UARFree("c1")

SpecFree == InitPin /\ [][NextFree]_vars

\* the step frees pair p
FreedNow(p) == pairs[p].st # "freed" /\ pairs'[p].st = "freed"

\* evict_pair comes to cachetable_maybe_remove_and_free_pair for pair p, on
\* the eviction thread or on a worker
EvictionEnds(p) ==
    \/ ev.pc = "ev_wl" /\ ev.p = p /\ ev'.pc # "ev_wl"
    \/ P(p).job = "evicter_wl" /\ pairs'[p].job # "evicter_wl"

\* a pair is freed by the thread that ends its eviction or its
\* unpin_and_remove, which alone holds its value and disk nb_mutex up to
\* then (or, after nb_mutex_wait_for_users, nobody does); no thread is
\* blocked on the value lock and there is no clone
FreedUnused ==
    \A p \in PairIds :
        FreedNow(p) =>
            /\ P(p).vq = 0
            /\ P(p).clone = NoVal
            /\ ~P(p).cjob
            /\ IF th["c1"].pc = "uar_wait" /\ th["c1"].p = p
               THEN P(p).vw = 0 /\ P(p).dw = 0
               ELSE /\ P(p).vw = 1 /\ P(p).dw = 1
                    /\ \/ EvictionEnds(p)
                       \/ th["c1"].pc = "uar_wl" /\ th["c1"].p = p /\ th["c1"].pin = p

\* an eviction that ends while threads are blocked on the value lock leaves
\* the pair in the table, unlocked, for them
EvictionAbandoned ==
    \A p \in PairIds :
        EvictionEnds(p) /\ P(p).vq > 0 =>
            /\ pairs'[p].st = "live"
            /\ pairs'[p].vq = P(p).vq
            /\ pairs'[p].vw = 0
            /\ pairs'[p].key = P(p).key
            /\ pairs'[p].val = P(p).val

\* C30: a pair is freed only when no thread holds or is blocked on its
\* value_nb_mutex, nobody uses its disk_nb_mutex and it has no clone; if a
\* client or the checkpointer waits for the pair's value lock when the
\* evictor finishes with it, the eviction is abandoned and the pair stays in
\* the table for the waiter
C30_FreedOnlyUnused == [][FreedUnused /\ EvictionAbandoned]_vars

\* the client and the checkpointer both wait for the value lock of a pair
\* that a worker has written for its eviction and now holds under the list
\* write lock, at cachetable_maybe_remove_and_free_pair
C30_Witness ==
    \E p \in PairIds :
        /\ P(p).st = "live"
        /\ P(p).job = "evicter_wl"
        /\ P(p).vq = 2
        /\ cp.pc = "cp_vwait" /\ cp.p = p
        /\ th["c1"].pc = "gp_vwait" /\ th["c1"].p = p
        /\ list_readers = {}

\* ------------------------------------------------------------------------
\* C31
\* ------------------------------------------------------------------------
\* two clients that put, pin, unpin and remove under memory pressure, with
\* the eviction thread and its worker jobs
NextSpin ==
    \/ \E c \in Clients : \/ PutNext(c) \/ UnpinNext(c) \/ GetAndPinNext(c)
                          \/ StartUnpinAndRemove(c) \/ UARDiskLocked(c) \/ UARRemove(c)
                          \/ FlowControlNext(c)
    \/ EvictorNext
    \/ EvictionJobNext

SpecSpin == InitPin /\ [][NextSpin]_vars

\* the steps by which a client goes on with the call it is in
CallContinues(c) ==
    \/ PutInsert(c)
    \/ GPBegin(c) \/ GPValueLocked(c) \/ (\E pf \in BOOLEAN : GPCheckpoint(c, pf))
    \/ GPWriteLocked(c) \/ GPFetch(c)
    \/ UARDiskLocked(c) \/ UARRemove(c)
    \/ FlowControlNext(c)

\* ... the eviction thread and the workers fairly scheduled; a client
\* finishes the call it is in, and may stop between two calls with its pairs
\* pinned
FairSpin ==
    /\ SpecSpin
    /\ EvictionFairness
    /\ \A c \in Clients : WF_vars(CallContinues(c))

\* run_eviction is going round its loop
InPass == ev.pc = "run"

\* the pair whose key run_eviction has memoized is no longer on the clock
MemoizedPairGone ==
    /\ ev.set_val
    /\ \A i \in 1 .. Len(clock) : P(clock[i]).key # ev.curr_key

\* C31: an eviction pass in which every pair of the clock is in use stops
\* after at most one revolution of the clock, whatever pairs other threads
\* insert or remove meanwhile: run_eviction does not go round its loop for
\* ever
C31_PassEnds == []<>(~InPass)

\* the pass ends unless the memoized pair has left the clock
C31_PassEndsUnlessRemoved == []<>(~InPass \/ MemoizedPairGone)

\* run_eviction goes on looking at pairs in use after the pair it has
\* memoized was removed
C31_Witness ==
    /\ InPass
    /\ MemoizedPairGone
    /\ eviction_needed(ev)
    /\ clock # <<>>
    /\ \A i \in 1 .. Len(clock) : pair_in_use(P(clock[i]))

\* ------------------------------------------------------------------------
\* C32
\* ------------------------------------------------------------------------
\* the evictions handed to a kibbutz worker that have not yet given their
\* estimate back through decrease_size_evicting: a full eviction up to the
\* call in evict_pair, an expensive partial eviction up to the call in
\* do_partial_eviction
EvictionsInFlight == {p \in PairIds : P(p).job \in {"evicter", "pe"}}

\* the sum of size_evicting_estimate over a set of pairs
RECURSIVE EstimateOfPairs(_)
EstimateOfPairs(S) ==
    IF S = {} THEN 0
    ELSE LET p == CHOOSE q \in S : TRUE IN P(p).est + EstimateOfPairs(S \ {p})

\* C32: size_evicting is never negative, it is the sum of
\* size_evicting_estimate over the full evictions and the expensive partial
\* evictions that are enqueued and not yet finished, and it is 0 when no
\* eviction work is in flight
C32_SizeEvictingAccounted ==
    /\ ev.size_evicting >= 0
    /\ ev.size_evicting = EstimateOfPairs(EvictionsInFlight)
    /\ (ev.pc \in {"idle", "run"} /\ \A p \in PairIds : P(p).job = "none")
          => ev.size_evicting = 0

\* a full eviction and an expensive partial eviction are enqueued together
C32_Witness ==
    /\ \E p \in PairIds : P(p).job = "evicter" /\ P(p).est > 0
    /\ \E p \in PairIds : P(p).job = "pe" /\ P(p).est > 0
    /\ ev.size_evicting = 2 * PairSize

\* ------------------------------------------------------------------------
\* The attributes of the pairs and the evictor's totals: each operation
\* reduced to what it does to p->attr and to m_size_current, m_size_nonleaf,
\* m_size_leaf, m_size_rollback and m_size_cachepressure. A pair is a record
\* of its state, its value lock and its PAIR_ATTR.
\* ------------------------------------------------------------------------
NumAttrPairs == 2
MaxAttrOps == 5

AttrPairs == 1 .. NumAttrPairs

zero_attr ==
    [size |-> 0, nonleaf_size |-> 0, leaf_size |-> 0, rollback_size |-> 0,
     cache_pressure_size |-> 0, is_valid |-> TRUE]

\* the attributes the callbacks and the callers hand in: a leaf node, a
\* nonleaf node, a rollback log node, a node that was emptied
ValidAttrs ==
    { [zero_attr EXCEPT !.size = 2, !.leaf_size = 2, !.cache_pressure_size = 1],
      [zero_attr EXCEPT !.size = 3, !.nonleaf_size = 3, !.cache_pressure_size = 2],
      [zero_attr EXCEPT !.size = 1, !.rollback_size = 1],
      zero_attr }

\* what unpin is given when the size did not change
invalid_attr == [zero_attr EXCEPT !.is_valid = FALSE]

\* evictor::add_pair_attr
add_pair_attr(e, attr) ==
    [e EXCEPT !.size_current = @ + attr.size,
              !.size_nonleaf = @ + attr.nonleaf_size,
              !.size_leaf = @ + attr.leaf_size,
              !.size_rollback = @ + attr.rollback_size,
              !.size_cachepressure = @ + attr.cache_pressure_size]

\* evictor::remove_pair_attr with all its totals
remove_attr(e, attr) ==
    [e EXCEPT !.size_current = @ - attr.size,
              !.size_nonleaf = @ - attr.nonleaf_size,
              !.size_leaf = @ - attr.leaf_size,
              !.size_rollback = @ - attr.rollback_size,
              !.size_cachepressure = @ - attr.cache_pressure_size]

\* evictor::change_pair_attr
change_pair_attr(e, old_attr, new_attr) == remove_attr(add_pair_attr(e, new_attr), old_attr)

AttrUnchanged ==
    UNCHANGED <<clock, clock_head, cleaner_head, pending_list, list_readers, next_pair,
                sleepers, cl, cp, th, disk, bjm, cachetable_miss, cf_list, pl, lk, hist>>

AttrOp == nops < MaxAttrOps /\ nops' = nops + 1 /\ AttrUnchanged

\* toku_cachetable_put: cachetable_insert_at with the caller's attr, the
\* pair is returned pinned
AttrPut(p, attr) ==
    /\ AttrOp
    /\ P(p).st = "unused"
    /\ pairs' = SetPair(p, [st |-> "live", vw |-> 1, attr |-> attr])
    /\ ev' = add_pair_attr(ev, attr)

\* get_and_pin, miss: cachetable_insert_at with zero_attr, then
\* cachetable_fetch_pair stores the attr of fetch_callback
AttrGetAndPinMiss(p, attr) ==
    /\ AttrOp
    /\ P(p).st = "unused"
    /\ pairs' = SetPair(p, [st |-> "live", vw |-> 1, attr |-> attr])
    /\ ev' = add_pair_attr(add_pair_attr(ev, zero_attr), attr)

\* get_and_pin, hit, with no partial fetch
AttrGetAndPinHit(p) ==
    /\ AttrOp
    /\ P(p).st = "live" /\ P(p).vw = 0
    /\ pairs' = SetPair(p, [P(p) EXCEPT !.vw = 1])
    /\ ev' = ev

\* get_and_pin, hit, with do_partial_fetch
AttrPartialFetch(p, new_attr) ==
    /\ AttrOp
    /\ P(p).st = "live" /\ P(p).vw = 0
    /\ pairs' = SetPair(p, [P(p) EXCEPT !.vw = 1, !.attr = new_attr])
    /\ ev' = change_pair_attr(ev, P(p).attr, new_attr)

\* cachetable_unpin_internal
AttrUnpin(p, attr) ==
    /\ AttrOp
    /\ P(p).st = "live" /\ P(p).vw = 1
    /\ pairs' = SetPair(p, [P(p) EXCEPT !.vw = 0,
                                        !.attr = IF attr.is_valid THEN attr ELSE @])
    /\ ev' = IF attr.is_valid THEN change_pair_attr(ev, P(p).attr, attr) ELSE ev

\* evictor::do_partial_eviction, on the eviction thread or a worker
AttrPartialEviction(p, new_attr) ==
    /\ AttrOp
    /\ P(p).st = "live" /\ P(p).vw = 0
    /\ new_attr.size <= P(p).attr.size
    /\ pairs' = SetPair(p, [P(p) EXCEPT !.attr = new_attr])
    /\ ev' = change_pair_attr(ev, P(p).attr, new_attr)

\* evictor::evict_pair: cachetable_write_locked_pair may store the attr the
\* flush callback returns, cachetable_remove_pair takes the pair's attr off
AttrEvict(p, new_attr) ==
    LET attr == IF new_attr.is_valid THEN new_attr ELSE P(p).attr
    IN  /\ AttrOp
        /\ P(p).st = "live" /\ P(p).vw = 0
        /\ pairs' = SetPair(p, [st |-> "unused", vw |-> 0, attr |-> zero_attr])
        /\ ev' = remove_attr(IF new_attr.is_valid
                             THEN change_pair_attr(ev, P(p).attr, new_attr)
                             ELSE ev, attr)

\* toku_cachetable_unpin_and_remove: the cache_pressure_size of the pair is
\* set to 0 before cachetable_remove_pair takes the pair's attr off
AttrUnpinAndRemove(p) ==
    LET attr == [P(p).attr EXCEPT !.cache_pressure_size = 0]
    IN  /\ AttrOp
        /\ P(p).st = "live" /\ P(p).vw = 1
        /\ pairs' = SetPair(p, [st |-> "unused", vw |-> 0, attr |-> zero_attr])
        /\ ev' = remove_attr(ev, attr)

AttrNext ==
    \E p \in AttrPairs :
        \/ \E attr \in ValidAttrs : AttrPut(p, attr)
        \/ \E attr \in ValidAttrs : AttrGetAndPinMiss(p, attr)
        \/ AttrGetAndPinHit(p)
        \/ \E attr \in ValidAttrs : AttrPartialFetch(p, attr)
        \/ \E attr \in ValidAttrs \union {invalid_attr} : AttrUnpin(p, attr)
        \/ \E attr \in ValidAttrs : AttrPartialEviction(p, attr)
        \/ \E attr \in ValidAttrs \union {invalid_attr} : AttrEvict(p, attr)
        \/ AttrUnpinAndRemove(p)

\* evictor::init: the totals start at 0
InitAttr ==
    /\ pairs = [p \in AttrPairs |-> [st |-> "unused", vw |-> 0, attr |-> zero_attr]]
    /\ ev = [size_current |-> 0, size_nonleaf |-> 0, size_leaf |-> 0,
             size_rollback |-> 0, size_cachepressure |-> 0]
    /\ clock = <<>>
    /\ clock_head = NoPair
    /\ cleaner_head = NoPair
    /\ pending_list = {}
    /\ list_readers = {}
    /\ next_pair = 1
    /\ sleepers = {}
    /\ cl = [pc |-> "idle", p |-> NoPair, pend |-> FALSE, runs |-> 0, iterations |-> 1, i |-> 0]
    /\ cp = [pc |-> "idle", p |-> NoPair, n |-> 0]
    /\ th = [c \in Clients |-> IdleThread]
    /\ disk = [k \in AttrPairs |-> 0]
    /\ bjm = [cf |-> 0, clones |-> 0, closed |-> FALSE, list |-> {}]
    /\ cf_list = cachefile_list_init
    /\ pl = pair_list_init
    /\ lk = lock_init
    /\ cachetable_miss = 0
    /\ nops = 0
    /\ hist = HistInit

SpecAttr == InitAttr /\ [][AttrNext]_vars

\* ------------------------------------------------------------------------
\* C33
\* ------------------------------------------------------------------------
\* the sum of one attribute over the pairs in the table
RECURSIVE AttrSum(_, _)
AttrSum(S, field) ==
    IF S = {} THEN 0
    ELSE LET p == CHOOSE q \in S : TRUE
         IN  (IF P(p).st = "live" THEN P(p).attr[field] ELSE 0) + AttrSum(S \ {p}, field)

\* C33: when no operation is under way, each of size_leaf, size_nonleaf,
\* size_rollback and size_cachepressure is the sum of that attribute over the
\* pairs in the table, after any sequence of put, get_and_pin, unpin, partial
\* or full eviction and unpin_and_remove
C33_TotalsAreSums ==
    /\ ev.size_leaf = AttrSum(AttrPairs, "leaf_size")
    /\ ev.size_nonleaf = AttrSum(AttrPairs, "nonleaf_size")
    /\ ev.size_rollback = AttrSum(AttrPairs, "rollback_size")
    /\ ev.size_cachepressure = AttrSum(AttrPairs, "cache_pressure_size")

\* the three size categories and size_current are sums over the table;
\* size_cachepressure is never less than its sum
C33_SizesAreSums ==
    /\ ev.size_current = AttrSum(AttrPairs, "size")
    /\ ev.size_leaf = AttrSum(AttrPairs, "leaf_size")
    /\ ev.size_nonleaf = AttrSum(AttrPairs, "nonleaf_size")
    /\ ev.size_rollback = AttrSum(AttrPairs, "rollback_size")
    /\ ev.size_cachepressure >= AttrSum(AttrPairs, "cache_pressure_size")

\* the table is empty again and cache pressure is still accounted
C33_Witness ==
    /\ \A p \in AttrPairs : P(p).st = "unused"
    /\ ev.size_current = 0
    /\ ev.size_cachepressure > 0

\* ------------------------------------------------------------------------
\* The cleaner among clients: four clean, unpinned pairs with the
\* cache_pressure_size of CleanerScores, put in the order of their keys, the
\* cleaner head anywhere; a client pins, unpins and removes the pairs of the
\* keys 1 and 2 while the cleaner runs.
\* ------------------------------------------------------------------------
CleanerScores == <<10, 5, 3, 5>>

InitCleanPin ==
    /\ pairs = [p \in 1 .. Len(CleanerScores) |->
                   cachetable_insert_at(p, 0, PairSize, CleanerScores[p], FALSE, FALSE)]
    /\ clock = [p \in 1 .. Len(CleanerScores) |-> p]
    /\ clock_head = 1
    /\ cleaner_head \in 1 .. Len(CleanerScores)
    /\ pending_list = {}
    /\ list_readers = {}
    /\ next_pair = Len(CleanerScores) + 1
    /\ ev = [evictor_init(Len(CleanerScores) * PairSize)
               EXCEPT !.size_current = Len(CleanerScores) * PairSize]
    /\ sleepers = {}
    /\ cl = [pc |-> "idle", p |-> NoPair, pend |-> FALSE, runs |-> 0,
             iterations |-> CleanerIterations, i |-> 0]
    /\ cp = [pc |-> "idle", p |-> NoPair, n |-> 0]
    /\ th = [c \in Clients |-> IdleThread]
    /\ disk = [k \in 1 .. Len(CleanerScores) |-> 0]
    /\ bjm = [cf |-> 0, clones |-> 0, closed |-> FALSE, list |-> {}]
    /\ cf_list = cachefile_list_init
    /\ pl = pair_list_init
    /\ lk = lock_init
    /\ cachetable_miss = 0
    /\ nops = 0
    /\ hist = HistInit

NextCleanPin ==
    \/ \E k \in Keys, mm \in BOOLEAN : StartGetAndPin("c1", k, mm)
    \/ GPBegin("c1")
    \/ GPValueLocked("c1")
    \/ \E pf \in BOOLEAN : GPCheckpoint("c1", pf)
    \/ UnpinNext("c1")
    \/ StartUnpinAndRemove("c1") \/ UARDiskLocked("c1") \/ UARRemove("c1")
    \/ NextCleaner

SpecCleanPin == InitCleanPin /\ [][NextCleanPin]_vars

\* ------------------------------------------------------------------------
\* C34
\* ------------------------------------------------------------------------
\* the positions, in the scan the cleaner is about to make, of the pairs it
\* examines: those it finds without users of the value lock
Examined(scan) ==
    {n \in 1 .. Len(scan) : nb_mutex_users(P(scan[n]).vw, P(scan[n]).vq) = 0}

\* the pair the cleaner takes is an examined pair with a score above 0, no
\* examined pair has a greater score, and no pair examined before it has
\* the same score
PicksBestExamined ==
    (cl.pc = "idle" /\ cl'.pc = "cl_have") =>
        LET scan == cleaner_scan(cleaner_head, cleaner_head, 0, FALSE)
            b    == cl'.p
        IN  \E n \in Examined(scan) :
                /\ scan[n] = b
                /\ cleaner_thread_rate_pair(P(b)) > 0
                /\ \A m \in Examined(scan) :
                       /\ cleaner_thread_rate_pair(P(scan[m])) <= cleaner_thread_rate_pair(P(b))
                       /\ m < n => cleaner_thread_rate_pair(P(scan[m])) <
                                       cleaner_thread_rate_pair(P(b))

\* the callback is invoked on the pair that was taken, which rates above 0
CallbackOnPicked ==
    (cl.pc # "cl_cb" /\ cl'.pc = "cl_cb") =>
        /\ cl.pc = "cl_have" /\ cl'.p = cl.p
        /\ cleaner_thread_rate_pair(pairs'[cl.p]) > 0

\* a client is in unpin_and_remove of pair p
Removing(c, p) == th[c].op = "unpin_and_remove" /\ ~AtRest(c) /\ th[c].p = p

\* the cleaner holds no pair that a client is removing
CleanerOffRemoved ==
    cl.pc \in {"cl_have", "cl_cb"} => \A c \in Clients : ~Removing(c, cl.p)

\* C34: in each probe the cleaner invokes the cleaner callback on the
\* examined pair with the greatest cache_pressure_size, the first seen among
\* equals, never on a pair whose cache_pressure_size is 0 or that had users
\* of its value lock when examined, and so never on a pair in
\* unpin_and_remove
C34_CleansBestExamined == [][PicksBestExamined /\ CallbackOnPicked /\ CleanerOffRemoved']_vars

\* the pair with the greatest score is being removed by a client, and the
\* cleaner has taken the first of the two pairs that rate 5
C34_Witness ==
    /\ Removing("c1", 1)
    /\ cl.pc = "cl_cb"
    /\ CleanerScores[cl.p] = 5
    /\ cleaner_thread_rate_pair(P(1)) = 10

\* ------------------------------------------------------------------------
\* C35
\* ------------------------------------------------------------------------
\* client c, in get_and_pin_nonblocking with may_modify_value, found the pair
\* with its value lock free, has locked it and read its pending bit, and now
\* returns without a partial fetch
NonblockingHitReturns(c) ==
    /\ th[c].op = "get_and_pin_nonblocking"
    /\ th[c].pc = "nb_ckpt"
    /\ th[c].mm
    /\ th'[c].pc = "done"

\* the call returns the pair pinned, the unlockers not run, when the pending
\* bit was clear, the pair is clean or it has a clone callback; else it has
\* run the unlockers once, written the pair, unpinned it and returns
\* TOKUDB_TRY_AGAIN, the pair clean and not pending
NonblockingResolves(c) ==
    LET p == th[c].p
        r == P(p)
    IN  NonblockingHitReturns(c) =>
            IF ~th[c].pend \/ ~r.dirty \/ has_clone_callback(r)
            THEN /\ th'[c].ret = 0
                 /\ th'[c].unl = 0
                 /\ th'[c].pin = p
                 /\ nb_mutex_writers(pairs'[p].vw) = 1
            ELSE /\ th'[c].ret = TOKUDB_TRY_AGAIN
                 /\ th'[c].unl = 1
                 /\ th'[c].pin = NoPair
                 /\ nb_mutex_writers(pairs'[p].vw) = 0
                 /\ ~pairs'[p].dirty
                 /\ ~pairs'[p].pend
                 /\ disk'[r.key] = r.val

\* C35: get_and_pin_nonblocking with may_modify_value on a present,
\* uncontended pair that needs no partial fetch returns the pair pinned
\* without running the unlockers exactly when checkpointing is fast
\* (checkpoint_pending false, or pair clean, or a clone callback exists);
\* when the pair is pending, dirty and has no clone callback it runs the
\* unlockers, writes the pair for checkpoint, unpins it and returns
\* TRY_AGAIN with the pair clean and its pending bit cleared
C35_NonblockingResolves == [][\A c \in Clients : NonblockingResolves(c)]_vars

\* a call has returned TOKUDB_TRY_AGAIN for a pair that was pending and
\* dirty, which is now written, clean, not pending and unpinned
C35_Witness ==
    \E c \in Clients :
        /\ th[c].op = "get_and_pin_nonblocking" /\ th[c].pc = "done" /\ th[c].mm
        /\ th[c].ret = TOKUDB_TRY_AGAIN /\ th[c].unl = 1
        /\ cp.pc # "idle"
        /\ \E p \in PairIds :
               /\ P(p).st = "live" /\ P(p).key = th[c].k /\ ~has_clone_callback(P(p))
               /\ ~P(p).dirty /\ ~P(p).pend /\ nb_mutex_users(P(p).vw, P(p).vq) = 0
               /\ disk[P(p).key] = P(p).val /\ P(p).val # 0

\* ------------------------------------------------------------------------
\* Background jobs on the file: a client that puts, pins, unpins and
\* prefetches under cache pressure, the prefetch readers, the eviction thread
\* with its worker jobs, the cleaner, and closes of the file whenever the
\* client does not use it.
\* ------------------------------------------------------------------------
ClientContinues(c) ==
    \/ PutInsert(c)
    \/ GPBegin(c) \/ GPValueLocked(c) \/ (\E pf \in BOOLEAN : GPCheckpoint(c, pf))
    \/ GPWriteLocked(c) \/ GPFetch(c)
    \/ (\E pf \in BOOLEAN : PrefetchWriteLocked(c, pf))

NextJobs ==
    \/ \E k \in Keys, v \in Values : StartPut("c1", k, v)
    \/ \E k \in Keys, mm \in BOOLEAN : StartGetAndPin("c1", k, mm)
    \/ \E k \in Keys, pf \in BOOLEAN : StartPrefetch("c1", k, pf)
    \/ UnpinNext("c1")
    \/ ClientContinues("c1")
    \/ ReaderNext
    \/ EvictorNext
    \/ EvictionJobNext
    \/ CleanerNext
    \/ FlushNext

\* the limit lets one pair in without pressure, a second one starts eviction
JobsLimit == 2

InitJobs == Created(JobsLimit)

SpecJobs == InitJobs /\ [][NextJobs]_vars

\* every thread that is inside a call or has work is scheduled; the client
\* may stop calling, and hold a pin, for ever
JobsFairness ==
    /\ EvictionFairness
    /\ WF_vars(ClientContinues("c1"))
    /\ WF_vars(ReaderNext)
    /\ WF_vars(CleanerCheckpoint)
    /\ WF_vars(\E d \in BOOLEAN : CleanerCallback(d, FALSE))
    /\ WF_vars(\E p \in PairIds : cachetable_flush_pair_for_close(p))
    /\ WF_vars(FlushRemove)

FairJobs == SpecJobs /\ JobsFairness

\* ------------------------------------------------------------------------
\* C36
\* ------------------------------------------------------------------------
\* the work that holds a background job of the file: the pairs handed to a
\* kibbutz worker by the evictor or by prefetch, the pair the eviction thread
\* works on, the pair the cleaner works on
JobsHeld ==
    Cardinality({p \in PairIds : P(p).job \in {"evicter", "evicter_wl", "pe", "reader", "preader"}})
        + (IF ev.pc \in {"ev_pe", "ev_wl"} THEN 1 ELSE 0)
        + (IF cl.pc \in {"cl_have", "cl_cb"} THEN 1 ELSE 0)

\* every job added is removed once: the count of the file's background jobs
\* is the number of pieces of work under way
JobsBalanced == bjm.cf = JobsHeld

\* the eviction thread and the cleaner leave the pairs of a file that
\* rejects the job as they are
RejectedUntouched ==
    (bjm.closed /\ (EvictorPass \/ CleanerPick)) => (pairs' = pairs /\ bjm' = bjm)

\* C36: every background job that the evictor, the cleaner or prefetch adds
\* on a cache file is removed exactly once when that work finishes, on every
\* path, so that the wait of close for the background jobs eventually
\* returns; the evictor and the cleaner do nothing to a pair whose file
\* rejects the job
C36_JobsRemoved ==
    /\ []JobsBalanced
    /\ [][RejectedUntouched]_vars
    /\ []<>(bjm.cf = 0)

\* the file is being closed while the eviction thread looks at its pairs
C36_Witness ==
    /\ bjm.closed /\ bjm.cf = 0
    /\ ev.pc = "run" /\ clock # <<>>
    /\ \E p \in PairIds : P(p).st = "live" /\ ~pair_in_use(P(p))

\* ------------------------------------------------------------------------
\* C37
\* ------------------------------------------------------------------------
\* pair q comes into the table in this step
Inserted(q) == P(q).st # "live" /\ pairs'[q].st = "live"

\* C37 as stated: a pair inserted by put starts with clock count 3, a pair
\* inserted by the miss path of get_and_pin, get_and_pin_nonblocking or
\* prefetch starts with clock count 0
InsertedCountByOrigin ==
    \A q \in PairIds :
        Inserted(q) => pairs'[q].cnt = (IF pairs'[q].byput THEN CLOCK_INITIAL_COUNT ELSE 0)

C37_MissStartsAtZero == [][InsertedCountByOrigin]_vars

\* C37: every pair starts with clock count 3, whether it is inserted by put
\* or by the miss path of get_and_pin, get_and_pin_nonblocking or prefetch
InsertedCountInitial ==
    \A q \in PairIds : Inserted(q) => pairs'[q].cnt = CLOCK_INITIAL_COUNT

C37_EveryPairStartsAtThree == [][InsertedCountInitial]_vars

\* pairs just inserted by the miss paths of get_and_pin and of prefetch, not
\* yet read, with the count 3
C37_Witness ==
    /\ \E c \in Clients :
           /\ th[c].op = "get_and_pin" /\ th[c].pc = "gp_fetch"
           /\ ~P(th[c].p).byput /\ P(th[c].p).cnt = CLOCK_INITIAL_COUNT
    /\ \E p \in PairIds :
           P(p).st = "live" /\ P(p).job = "reader" /\ P(p).cnt = CLOCK_INITIAL_COUNT

\* ------------------------------------------------------------------------
\* Touches and decrements: the pair of key 1 is in the table, read, clean and
\* unpinned, with any clock count a pair can have come to; two clients pin
\* and unpin under memory pressure while the eviction thread and its workers
\* run.
\* ------------------------------------------------------------------------
TouchCounts == {0, 1, CLOCK_SATURATION - 1, CLOCK_SATURATION}

InitTouch ==
    /\ disk = [k \in FileKeys |-> 0]
    /\ \E n \in TouchCounts :
           pairs = [p \in PairIds |->
                       IF p = 1
                       THEN [cachetable_fetch_pair(
                                 cachetable_insert_at(1, NoVal, 0, 0, FALSE, FALSE), FALSE)
                               EXCEPT !.cnt = n]
                       ELSE BlankPair]
    /\ clock = <<1>>
    /\ clock_head = 1
    /\ cleaner_head = 1
    /\ pending_list = {}
    /\ list_readers = {}
    /\ next_pair = 2
    /\ ev = add_to_size_current(evictor_init(SizeLimit), PairSize)
    /\ sleepers = {}
    /\ cl = [pc |-> "idle", p |-> NoPair, pend |-> FALSE, runs |-> 0, iterations |-> 1, i |-> 0]
    /\ cp = [pc |-> "idle", p |-> NoPair, n |-> 0]
    /\ th = [c \in Clients |-> IdleThread]
    /\ bjm = [cf |-> 0, clones |-> 0, closed |-> FALSE, list |-> {}]
    /\ cf_list = cachefile_list_init
    /\ pl = pair_list_init
    /\ lk = lock_init
    /\ cachetable_miss = 0
    /\ nops = 0
    /\ hist = HistInit

NextTouch ==
    \/ \E c \in Clients : GetAndPinNext(c) \/ UnpinNext(c) \/ GPAgain(c) \/ GPWake(c)
    \/ EvictorNext
    \/ EvictionJobNext

SpecTouch == InitTouch /\ [][NextTouch]_vars

\* ------------------------------------------------------------------------
\* C38
\* ------------------------------------------------------------------------
\* client c, in get_and_pin, takes the value lock of pair q in try_pin_pair
TryPinPairLocks(c, q) ==
    /\ th[c].op = "get_and_pin"
    /\ th[c].pc \in {"gp_begin", "gp_wl", "gp_vwait"}
    /\ th'[c].pc = "gp_ckpt" /\ th'[c].p = q

\* client c returns from the miss path of get_and_pin with pair q
MissReturns(c, q) ==
    /\ th[c].op = "get_and_pin"
    /\ th[c].pc = "gp_fetch" /\ th[c].p = q
    /\ th'[c].pc = "done"

\* the call of client c has locked pair q in try_pin_pair before, and given
\* it up because of cache pressure
Retried(c, q) == th[c].pc \in {"gp_begin", "gp_wl"} /\ th[c].p = q

\* every count is within 0 .. 15
CountInRange == \A q \in PairIds : P(q).cnt \in 0 .. CLOCK_SATURATION

\* C38 as stated: every successful get_and_pin, hit or miss, retried or not,
\* increments the count of its pair by exactly one: the miss path returns a
\* pair whose initial count was incremented once, and no call increments the
\* count of the same pair a second time
TouchedOncePerCall ==
    \A c \in Clients, q \in PairIds :
        /\ MissReturns(c, q) => pairs'[q].cnt = pair_touch(CLOCK_INITIAL_COUNT)
        /\ TryPinPairLocks(c, q) => ~Retried(c, q)

C38_OneTouchPerCall == [][TouchedOncePerCall]_vars

\* each try_pin_pair increments the count by one up to 15, the miss path
\* leaves the count it inserted the pair with, and a count changes in no
\* other way than by a try_pin_pair or by the decrement of the eviction
\* thread
TouchedPerAttempt ==
    \A q \in PairIds :
        /\ \A c \in Clients :
               /\ TryPinPairLocks(c, q) =>
                      pairs'[q].cnt = (IF P(q).cnt < CLOCK_SATURATION
                                       THEN P(q).cnt + 1 ELSE CLOCK_SATURATION)
               /\ MissReturns(c, q) =>
                      pairs'[q].cnt = P(q).cnt /\ P(q).cnt = CLOCK_INITIAL_COUNT
        /\ (P(q).st = "live" /\ pairs'[q].st = "live" /\ pairs'[q].cnt # P(q).cnt) =>
               \/ \E c \in Clients : TryPinPairLocks(c, q)
               \/ /\ ev.pc \in {"idle", "run"} /\ ev'.pc = "ev_pe" /\ ev'.p = q
                  /\ P(q).cnt > 0 /\ pairs'[q].cnt = P(q).cnt - 1

\* C38: every try_pin_pair of get_and_pin increments the count of its pair by
\* one, saturating at 15 (once for a hit, once more for every retry after
\* cache pressure); the miss path does not increment the count; the count of
\* every pair stays within 0 .. 15 under any interleaving of touches and
\* evictor decrements
C38_TouchPerAttempt == [][TouchedPerAttempt /\ CountInRange /\ CountInRange']_vars

\* a client takes the value lock of a pair whose count is 15 while the call
\* of another client, which locked the same pair before and gave it up for
\* cache pressure, sleeps before its next attempt
C38_Witness ==
    \E c \in Clients :
        /\ th[c].op = "get_and_pin" /\ th[c].pc = "gp_ckpt"
        /\ P(th[c].p).cnt = CLOCK_SATURATION
        /\ \E d \in Clients : d # c /\ th[d].pc = "gp_sleep" /\ th[d].p = th[c].p

\* ------------------------------------------------------------------------
\* C39
\* ------------------------------------------------------------------------
\* n is a power of two
RECURSIVE IsPowerOfTwo(_)
IsPowerOfTwo(n) == n = 1 \/ (n > 1 /\ n % 2 = 0 /\ IsPowerOfTwo(n \div 2))

\* C39: after every pair_list put or evict table_size is a power of two and
\* at least 4, n_in_table <= table_size, and either table_size = 4 or
\* 4 * n_in_table >= table_size: one doubling or one halving per operation
\* restores the bounds
C39_TableSizeBounds ==
    /\ IsPowerOfTwo(pl.table_size)
    /\ pl.table_size >= INITIAL_PAIR_LIST_SIZE
    /\ pl.n_in_table <= pl.table_size
    /\ (pl.table_size = INITIAL_PAIR_LIST_SIZE \/ 4 * pl.n_in_table >= pl.table_size)

\* the table was doubled and has been emptied to a quarter: the next evict
\* halves it
C39_Witness ==
    /\ pl.table_size = 2 * INITIAL_PAIR_LIST_SIZE
    /\ 4 * pl.n_in_table = pl.table_size
    /\ Len(clock) = pl.n_in_table

\* ------------------------------------------------------------------------
\* The two cursors of the clock list: a table of three unpinned pairs, the
\* second one dirty, that holds more than the evictor's limit of
\* CursorsLimit pairs, each cursor standing anywhere on the list; a client
\* that pins a pair and removes it with unpin_and_remove, the eviction
\* thread with its worker jobs, and the cleaner
CursorsLimit == 1
InitCursors ==
    /\ pairs = [p \in PairIds |->
                   [cachetable_insert_at(p, 0, PairSize, IF p = 2 THEN 0 ELSE p, p = 2, p = 2)
                      EXCEPT !.cnt = 1]]
    /\ clock = [p \in PairIds |-> p]
    /\ clock_head \in PairIds
    /\ cleaner_head \in PairIds
    /\ pending_list = {}
    /\ list_readers = {}
    /\ next_pair = MaxPairs + 1
    /\ ev = [evictor_init(CursorsLimit * PairSize) EXCEPT !.size_current = MaxPairs * PairSize]
    /\ sleepers = {}
    /\ cl = [pc |-> "idle", p |-> NoPair, pend |-> FALSE, runs |-> 0, iterations |-> 1, i |-> 0]
    /\ cp = [pc |-> "idle", p |-> NoPair, n |-> 0]
    /\ th = [c \in Clients |-> IdleThread]
    /\ disk = [k \in FileKeys |-> 0]
    /\ bjm = [cf |-> 0, clones |-> 0, closed |-> FALSE, list |-> {}]
    /\ cf_list = cachefile_list_init
    /\ pl = pair_list_init
    /\ lk = lock_init
    /\ cachetable_miss = 0
    /\ nops = 0
    /\ hist = HistInit

NextCursors ==
    \/ \E k \in Keys : StartGetAndPin("c1", k, TRUE)
    \/ GPBegin("c1")
    \/ GPValueLocked("c1")
    \/ GPCheckpoint("c1", FALSE)
    \/ StartUnpinAndRemove("c1") \/ UARDiskLocked("c1") \/ UARRemove("c1")
    \/ EvictorNext
    \/ EvictionJobNext
    \/ CleanerNext

SpecCursors == InitCursors /\ [][NextCursors]_vars

\* ------------------------------------------------------------------------
\* C40
\* ------------------------------------------------------------------------
OnClock(p) == \E i \in DOMAIN clock : clock[i] = p

\* m_clock_head and m_cleaner_head are NULL together, exactly when the clock
\* list is empty, and otherwise each is a pair on the list
CursorsOnClock ==
    /\ (clock_head = NoPair) <=> (clock = <<>>)
    /\ (cleaner_head = NoPair) <=> (clock = <<>>)
    /\ clock_head # NoPair => OnClock(clock_head)
    /\ cleaner_head # NoPair => OnClock(cleaner_head)

\* a pair that a step takes off the clock list is neither cursor after it
EvictedNotCursor ==
    \A p \in PairIds :
        (OnClock(p) /\ ~OnClock(p)') => (clock_head' # p /\ cleaner_head' # p)

\* C40: in every reachable state clock_head and cleaner_head are both null
\* exactly when the clock list is empty and otherwise each points to a pair
\* on the clock list; no evict(p) leaves a cursor at p, with the eviction
\* thread and the cleaner moving their cursors between the evictions.
C40_CursorsOnClock == []CursorsOnClock /\ [][EvictedNotCursor]_vars

\* a pair has been evicted and freed, the cleaner has moved its cursor off
\* the pair the eviction thread's cursor stands at, and both pairs are on
\* the list
C40_Witness ==
    /\ \E p \in PairIds : P(p).st = "freed"
    /\ Len(clock) >= 2
    /\ clock_head # cleaner_head
    /\ cl.runs > 0
    /\ CursorsOnClock

====
